---------------------------- MODULE Spec2Model ----------------------------
(***************************************************************************)
(* A model of the entity-resolution and relationship-consolidation         *)
(* pipeline of sdmeers/crit_graph:                                         *)
(*                                                                         *)
(*   - CR_character_graph.py, CampaignFourGraphBuilder: the label->kind    *)
(*     table, get_strongest_relationship, fetch_page, process_page,        *)
(*     add_entity, add_metadata_nodes, add_relationship and the three      *)
(*     phases of build_graph (SpecStrongest, SpecCrawl);                   *)
(*   - CR_episode_graph.py, EpisodeGraphVisualizer: is_episode_title,      *)
(*     detect_page_type, validate_page_type, validate_campaign,            *)
(*     score_search_result, fetch_and_validate_page and fetch_wiki_image   *)
(*     (SpecDetect, SpecResolve).                                          *)
(*                                                                         *)
(* Strings are modelled as they are compared by the code.  A wiki title or *)
(* node label of the resolver is the sequence of its whitespace-separated  *)
(* words, lower-cased; a page title of the crawler is an opaque normalized *)
(* title.  Confidences are integers in millionths (0.4 is 400000), so the  *)
(* code's weighted sums are computed exactly.                              *)
(***************************************************************************)
EXTENDS Integers, Sequences, FiniteSets, TLC

VARIABLES
    \* --- get_strongest_relationship (CR_character_graph.py) ---
    rel_types,          \* the list of raw labels handed to the function
    strongest_rel,      \* its result, "" before the call
    \* --- build_graph (CR_character_graph.py) ---
    phase,              \* "phase1" | "phase2" | "phase3" | "done"
    queue,              \* list of page titles still to visit
    processed,          \* set of canonical ids marked processed
    count,              \* the processed-count budget counter
    all_relationships,  \* dict canonical id -> buffered raw relationships,
                        \* as a list of <<key, value>> in insertion order
    unresolved_targets, \* phase 2: the targets still to fetch
    alias_map,          \* dict normalized title -> canonical id
    entities,           \* dict key -> [type]
    graph_nodes,        \* nodes of self.graph
    graph_edges,        \* edges of self.graph: <<source, target>> -> title
    relationships,      \* the exported list of relationship records
    fetch_failed,       \* history: some page request of the run failed
    requests,           \* history: title -> page requests made for it
    answered,           \* history: title -> final title of its latest
                        \* successful request
    creations,          \* history: key -> add_entity calls made for it
    failures,           \* history: queued titles whose request failed
    \* --- detect_page_type (CR_episode_graph.py) ---
    det_title,          \* the page title handed to the function
    det_soup,           \* the page handed to the function
    det_llm,            \* how the type oracle behaves if asked
    det_result,         \* its result, NotCalled before the call
    \* --- fetch_wiki_image (CR_episode_graph.py) ---
    image_cache,        \* dict node label -> result dict or None
    validation_cache,   \* dict <<page title, node type>> -> result tuple
    call,               \* the locals and position of the call under way
    io,                 \* requests made by the call under way
    ret,                \* what the last call returned
    pending,            \* enhance_graph: the nodes still to resolve
    first_ret,          \* history: label -> what its first call returned
    last_val,           \* history: the call's latest uncached validation
    \* --- build_graph_for_episode (episode_graph.py) ---
    ep_pc,              \* position of the call, see EpisodeIdle
    ep_soup,            \* the episode page the wiki serves
    ep_llm,             \* how the summary oracle behaves if asked
    ep_data,            \* episode_data once unpacked, NoData before
    ep_todo,            \* characters_present still to process
    ep_entities,        \* self.entities: node id -> type
    ep_edges,           \* edges of self.graph
    \* --- load_json, run (CR_episode_graph.py), json_to_gml ---
    document,           \* the JSON document of the input file
    graph,              \* self.graph and what load_json returned
    run,                \* what run() returned and which steps it reached
    gml,                \* the blocks of the GML file json_to_gml wrote
    \* --- fetch_and_validate_page for several labels ---
    order,              \* one candidate validated for a list of labels
    \* --- determine_entity_type (the three builders) ---
    classify,           \* the arguments of one call and its result
    \* --- add_relationship (char_graph.py) ---
    heur                \* the mentions of one pair and the pair's edge

strongestVars == <<rel_types, strongest_rel>>
historyVars == <<requests, answered, creations, failures>>
crawlVars == <<phase, queue, processed, count, all_relationships,
               unresolved_targets, alias_map, entities, graph_nodes,
               graph_edges, relationships, fetch_failed, historyVars>>
detectVars == <<det_title, det_soup, det_llm, det_result>>
resolveVars == <<image_cache, validation_cache, call, io, ret, pending,
                 first_ret, last_val>>
episodeVars == <<ep_pc, ep_soup, ep_llm, ep_data, ep_todo, ep_entities,
                 ep_edges>>
documentVars == <<document, graph, run, gml>>
laterVars == <<order, classify, heur>>
otherVars == <<episodeVars, documentVars, laterVars>>
notEpisode == <<strongestVars, crawlVars, detectVars, resolveVars,
                documentVars, laterVars>>
notDocument == <<strongestVars, crawlVars, detectVars, resolveVars,
                 episodeVars, laterVars>>
notLater == <<strongestVars, crawlVars, detectVars, resolveVars,
              episodeVars, documentVars>>
notCrawl == <<strongestVars, detectVars, resolveVars, otherVars>>
vars == <<strongestVars, crawlVars, detectVars, resolveVars, otherVars>>

-----------------------------------------------------------------------------
(* Generic helpers *)

Range(s) == {s[i] : i \in DOMAIN s}

\* All sequences over S of length at most n.
SeqsUpTo(S, n) == UNION {[1..k -> S] : k \in 0..n}

\* dict.get(key, default) on a function used as a dict.
Get(d, k, default) == IF k \in DOMAIN d THEN d[k] ELSE default

\* d[k] = v on a function used as a dict.
Put(d, k, v) == [x \in DOMAIN d \cup {k} |-> IF x = k THEN v ELSE d[x]]

-----------------------------------------------------------------------------
(* CR_character_graph.py: label -> kind table and precedence *)

RELATIONSHIP_MAP ==
    [l \in {"family", "romantic_partner", "close_friend", "ally",
            "served_together", "mentor_student", "enemy", "rival",
            "complicated", "member_of", "leads", "aspirant_of", "serves_in",
            "founded", "associated_with"} |->
        CASE l = "family" -> "Family"
          [] l = "romantic_partner" -> "Romantic Partner"
          [] l \in {"close_friend", "ally", "served_together",
                    "mentor_student"} -> "Ally"
          [] l \in {"enemy", "rival"} -> "Enemy"
          [] l = "complicated" -> "Complicated"
          [] l \in {"member_of", "leads", "aspirant_of", "serves_in",
                    "founded"} -> "Member Of"
          [] OTHER -> "Associated With"]

PRECEDENCE == <<"Enemy", "Family", "Romantic Partner", "Ally", "Complicated",
                "Member Of", "Associated With">>

\* The keys of RELATIONSHIP_STYLES.
RELATIONSHIP_STYLES == {"Family", "Romantic Partner", "Ally", "Enemy",
                        "Complicated", "Member Of", "Associated With"}

\* The loop "for rel in self.PRECEDENCE: if rel in new_types: return rel",
\* from position i on; the fall-through returns 'Associated With'.
RECURSIVE FirstInPrecedence(_, _, _)
FirstInPrecedence(prec, new_types, i) ==
    IF i > Len(prec) THEN "Associated With"
    ELSE IF prec[i] \in new_types THEN prec[i]
    ELSE FirstInPrecedence(prec, new_types, i + 1)

\* A plausible slip: the kind of the first label of the list wins.
get_strongest_first_label(types) ==
    IF Len(types) = 0 THEN "Associated With"
    ELSE Get(RELATIONSHIP_MAP, types[1], "Associated With")

get_strongest_relationship(types) ==
    LET new_types == {Get(RELATIONSHIP_MAP, types[i], "Associated With") :
                         i \in DOMAIN types}
    IN  FirstInPrecedence(PRECEDENCE, new_types, 1)

-----------------------------------------------------------------------------
(* CR_character_graph.py: the wiki the crawler reads *)

\* The budget of the phase-1 loop ("limit = 200" in the code), scaled down.
limit == 4

\* The seed roster (13 titles in the code), scaled down to two.
main_characters == <<"Thimble", "Azune_Nayar">>

\* Normalized page titles of the modelled wiki.
Titles == {"Thimble", "Azune_Nayar", "Thim", "House_Royce", "Royce",
           "Laura_Bailey"}

\* None, as returned by fetch_page on an error.
None == "None"

\* The final (post-redirect) titles the wiki may answer a request with.
\* "Thim" is either a redirect to "Thimble" or a page of its own; "Royce"
\* redirects to "House_Royce".
Redirects(t) ==
    CASE t = "Thim" -> {"Thim", "Thimble"}
      [] t = "Royce" -> {"House_Royce"}
      [] OTHER -> {t}

\* The infobox and category data of a canonical page: the type that
\* determine_entity_type derives for a page outside the roster, and the
\* Race / Class / Actor infobox fields ("" or <<>> when absent).
PageData(c) ==
    CASE c = "Thimble" ->
             [ptype |-> "NPC", Race |-> "Fairy", Class |-> <<"Rogue">>,
              Actor |-> "Laura_Bailey"]
      [] c = "Azune_Nayar" ->
             [ptype |-> "NPC", Race |-> "", Class |-> <<>>, Actor |-> ""]
      [] c = "Thim" ->
             [ptype |-> "Player Character", Race |-> "Fairy",
              Class |-> <<>>, Actor |-> "Laura_Bailey"]
      [] c = "House_Royce" ->
             [ptype |-> "Organization", Race |-> "", Class |-> <<>>,
              Actor |-> ""]
      [] OTHER ->
             [ptype |-> "Unknown", Race |-> "", Class |-> <<>>,
              Actor |-> ""]

Rel(t, types) == [target |-> t, types |-> types]

\* What the three extraction passes of a page may return (concatenated):
\* nothing; two raw titles of one page with several labels; the same raw
\* relationship twice; links to a seed and to a cast page; a label outside
\* the label->kind table; links to a cast page and to a character.
PageRelationships ==
    { <<>>,
      <<Rel("Royce", <<"member_of">>),
        Rel("House_Royce", <<"rival", "close_friend">>)>>,
      <<Rel("Thim", <<"ally">>), Rel("Thim", <<"ally">>)>>,
      <<Rel("Azune_Nayar", <<"associated_with">>),
        Rel("Laura_Bailey", <<"family">>)>>,
      <<Rel("Thimble", <<"sworn_to">>), Rel("Royce", <<"leads">>)>>,
      <<Rel("Laura_Bailey", <<"family">>), Rel("Thim", <<"ally">>)>> }

-----------------------------------------------------------------------------
(* CR_character_graph.py: page fetching and entity creation.  The operators *)
(* work on a record b of the builder's fields                              *)
(* [alias_map, entities, graph_nodes, graph_edges, relationships].         *)

\* Titles of the model are normalized already (no fragment, no query, no
\* spaces, no /wiki/ prefix): normalize_page_title leaves such a title as
\* it is.
normalize_page_title(page_title) == page_title

get_canonical_name(am, page_title) ==
    LET normalized == normalize_page_title(page_title)
    IN  IF normalized \in DOMAIN am THEN am[normalized] ELSE normalized

\* The answers the wiki can give to a request for page_title: an error
\* (None), or the final title.  The wiki does not change during a run: a
\* title fetched before redirects where it did.
FetchOutcomes(am, page_title) ==
    {None} \cup (IF page_title \in DOMAIN am THEN {am[page_title]}
                 ELSE Redirects(page_title))

\* A plausible slip: the alias is recorded only "if page_title !=
\* canonical_name".
fetch_page_redirect_only(b, page_title, out) ==
    LET t == normalize_page_title(page_title)
        asked == [b EXCEPT !.requests = Put(@, t, Get(@, t, 0) + 1)]
    IN  IF out = None THEN [b |-> asked, canonical_name |-> None]
        ELSE [b |-> [asked EXCEPT
                        !.alias_map = IF t # out THEN Put(b.alias_map, t, out)
                                      ELSE @,
                        !.answered = Put(@, t, out)],
              canonical_name |-> out]

\* A plausible slip: a failed request leaves an identity alias behind.
fetch_page_alias_on_error(b, page_title, out) ==
    LET t == normalize_page_title(page_title)
        asked == [b EXCEPT !.requests = Put(@, t, Get(@, t, 0) + 1)]
    IN  IF out = None
        THEN [b |-> [asked EXCEPT !.alias_map = Put(b.alias_map, t, t)],
              canonical_name |-> None]
        ELSE [b |-> [asked EXCEPT !.alias_map = Put(b.alias_map, t, out),
                                  !.answered = Put(@, t, out)],
              canonical_name |-> out]

\* fetch_page with the wiki's answer out: the alias is recorded on every
\* success, redirect or not.  Returns [b, canonical_name].
fetch_page(b, page_title, out) ==
    LET t == normalize_page_title(page_title)
        asked == [b EXCEPT !.requests = Put(@, t, Get(@, t, 0) + 1)]
    IN  IF out = None THEN [b |-> asked, canonical_name |-> None]
        ELSE [b |-> [asked EXCEPT !.alias_map = Put(b.alias_map, t, out),
                                  !.answered = Put(@, t, out)],
              canonical_name |-> out]

AddEdge(b, s, t, title) ==
    [b EXCEPT !.graph_nodes = @ \cup {s, t},
              !.graph_edges = Put(@, <<s, t>>, title)]

RECURSIVE AddClassNodes(_, _, _, _)
AddClassNodes(b, character_page, classes, i) ==
    IF i > Len(classes) THEN b
    ELSE AddClassNodes(
             AddEdge([b EXCEPT !.graph_nodes = @ \cup {"class_" \o classes[i]}],
                     character_page, "class_" \o classes[i], "Class"),
             character_page, classes, i + 1)

\* add_metadata_nodes; actor_out is the wiki's answer to the actor page
\* request, should one be made.
add_metadata_nodes(b, character_page, data, actor_out) ==
    LET b1 == IF data.Race # ""
              THEN AddEdge([b EXCEPT !.graph_nodes = @ \cup {"race_" \o data.Race}],
                           character_page, "race_" \o data.Race, "Race")
              ELSE b
        b2 == AddClassNodes(b1, character_page, data.Class, 1)
        actor == data.Actor
        f == fetch_page(b2, actor, actor_out)
        b3 == IF actor \notin b2.graph_nodes
              THEN [f.b EXCEPT
                      !.graph_nodes = @ \cup {actor},
                      !.entities = IF actor \notin DOMAIN @
                                   THEN Put(@, actor, [type |-> "Cast Member"])
                                   ELSE @]
              ELSE b2
    IN  IF actor = "" THEN b2
        ELSE AddEdge(b3, actor, character_page, "Plays")

add_entity(b, page_title, data, entity_type, actor_out) ==
    LET b1 == [b EXCEPT !.entities = Put(@, page_title, [type |-> entity_type]),
                        !.graph_nodes = @ \cup {page_title},
                        !.creations =
                            Put(@, page_title, Get(@, page_title, 0) + 1)]
    IN  IF entity_type \in {"Main Character", "Player Character"}
        THEN add_metadata_nodes(b1, page_title, data, actor_out)
        ELSE b1

\* determine_entity_type: the roster overrides everything else; otherwise
\* the type follows from the page's categories and infobox (PageData).
determine_entity_type(page_title, data) ==
    IF page_title \in Range(main_characters) THEN "Main Character"
    ELSE data.ptype

\* A plausible slip: the entity is stored under the requested title, not
\* under the canonical name.
process_page_requested_title(b, page_title, out, rels, actor_out) ==
    LET t == normalize_page_title(page_title)
        f == fetch_page(b, t, out)
        c == f.canonical_name
    IN  IF t \in DOMAIN b.alias_map /\ b.alias_map[t] \in DOMAIN b.entities
        THEN [b |-> b, relationships |-> <<>>, fetched |-> FALSE]
        ELSE IF c = None
        THEN [b |-> f.b, relationships |-> <<>>, fetched |-> TRUE]
        ELSE IF c \in DOMAIN f.b.entities
        THEN [b |-> f.b, relationships |-> <<>>, fetched |-> TRUE]
        ELSE [b |-> add_entity(f.b, t, PageData(c),
                               determine_entity_type(c, PageData(c)),
                               actor_out),
              relationships |-> rels, fetched |-> TRUE]

\* A plausible slip: no "if canonical_name in self.entities" after the
\* fetch.
process_page_unguarded(b, page_title, out, rels, actor_out) ==
    LET t == normalize_page_title(page_title)
        f == fetch_page(b, t, out)
        c == f.canonical_name
    IN  IF t \in DOMAIN b.alias_map /\ b.alias_map[t] \in DOMAIN b.entities
        THEN [b |-> b, relationships |-> <<>>, fetched |-> FALSE]
        ELSE IF c = None
        THEN [b |-> f.b, relationships |-> <<>>, fetched |-> TRUE]
        ELSE [b |-> add_entity(f.b, c, PageData(c),
                               determine_entity_type(c, PageData(c)),
                               actor_out),
              relationships |-> rels, fetched |-> TRUE]

\* process_page with the wiki's answers: out to the page request, rels the
\* relationships its extraction passes yield, actor_out to the actor page
\* request.  Returns [b, relationships, fetched].
process_page(b, page_title, out, rels, actor_out) ==
    LET t == normalize_page_title(page_title)
        f == fetch_page(b, t, out)
        c == f.canonical_name
    IN  IF t \in DOMAIN b.alias_map /\ b.alias_map[t] \in DOMAIN b.entities
        THEN [b |-> b, relationships |-> <<>>, fetched |-> FALSE]
        ELSE IF c = None
        THEN [b |-> f.b, relationships |-> <<>>, fetched |-> TRUE]
        ELSE IF c \in DOMAIN f.b.entities
        THEN [b |-> f.b, relationships |-> <<>>, fetched |-> TRUE]
        ELSE [b |-> add_entity(f.b, c, PageData(c),
                               determine_entity_type(c, PageData(c)),
                               actor_out),
              relationships |-> rels, fetched |-> TRUE]


-----------------------------------------------------------------------------
(* CR_character_graph.py: add_relationship and the phases of build_graph *)

\* style['label'] of RELATIONSHIP_STYLES.
StyleLabel(kind) == IF kind = "Associated With" THEN "" ELSE kind

\* A plausible slip: 'original_types': rel_types, without list(set(...)).
add_relationship_keep_list(b, source_page, target_page, types) ==
    LET k == get_strongest_relationship(types)
    IN  IF target_page \notin DOMAIN b.entities THEN b
        ELSE IF k \notin RELATIONSHIP_STYLES THEN b
        ELSE [AddEdge(b, source_page, target_page, StyleLabel(k)) EXCEPT
                !.relationships =
                    Append(@, [source |-> source_page, target |-> target_page,
                               type |-> k, original_types |-> types])]

add_relationship(b, source_page, target_page, types) ==
    LET k == get_strongest_relationship(types)
    IN  IF target_page \notin DOMAIN b.entities THEN b
        ELSE IF k \notin RELATIONSHIP_STYLES THEN b
        ELSE [AddEdge(b, source_page, target_page, StyleLabel(k)) EXCEPT
                !.relationships =
                    Append(@, [source |-> source_page, target |-> target_page,
                               type |-> k, original_types |-> Range(types)])]

\* An insertion-ordered dict as a list of <<key, value>>.
DictKeys(d) == {d[i][1] : i \in DOMAIN d}

DictGet(d, k, default) ==
    IF k \in DictKeys(d)
    THEN d[CHOOSE i \in DOMAIN d : d[i][1] = k][2]
    ELSE default

\* d[k] = v: an existing key keeps its place.
DictPut(d, k, v) ==
    IF k \in DictKeys(d)
    THEN [i \in DOMAIN d |-> IF d[i][1] = k THEN <<k, v>> ELSE d[i]]
    ELSE Append(d, <<k, v>>)

\* The enqueue loop of phase 1 over the relationships of one page.
RECURSIVE Enqueue(_, _, _, _, _)
Enqueue(q, rels, i, am, done) ==
    IF i > Len(rels) THEN q
    ELSE LET target == normalize_page_title(rels[i].target)
             target_canonical == get_canonical_name(am, target)
         IN  Enqueue(IF target_canonical \notin done /\ target \notin Range(q)
                     THEN Append(q, target) ELSE q,
                     rels, i + 1, am, done)

\* Phase 2, first loop: the targets whose canonical id is no entity.
UnresolvedTargets(all_rels, am, ents) ==
    UNION {{normalize_page_title(all_rels[i][2][j].target) :
               j \in {j \in DOMAIN all_rels[i][2] :
                         get_canonical_name(am, normalize_page_title(
                             all_rels[i][2][j].target)) \notin DOMAIN ents}} :
           i \in DOMAIN all_rels}

\* all_relationships.items() flattened: one [source, rel] per raw relationship,
\* in the order phase 3 visits them.
RECURSIVE Flatten(_, _)
Flatten(all_rels, i) ==
    IF i > Len(all_rels) THEN <<>>
    ELSE [j \in DOMAIN all_rels[i][2] |->
             [source |-> all_rels[i][1], rel |-> all_rels[i][2][j]]]
         \o Flatten(all_rels, i + 1)

\* Phase 3, first loop: final_rels, keyed by the pair of canonical ids.
RECURSIVE Aggregate(_, _, _, _, _)
Aggregate(flat, i, am, ents, final_rels) ==
    IF i > Len(flat) THEN final_rels
    ELSE LET source_canonical == flat[i].source
             target == normalize_page_title(flat[i].rel.target)
             target_canonical == get_canonical_name(am, target)
             key == <<source_canonical, target_canonical>>
         IN  Aggregate(flat, i + 1, am, ents,
                 IF source_canonical \in DOMAIN ents
                    /\ target_canonical \in DOMAIN ents
                 THEN DictPut(final_rels, key,
                              DictGet(final_rels, key, <<>>) \o flat[i].rel.types)
                 ELSE final_rels)

\* Phase 3, second loop: one add_relationship per key of final_rels.
RECURSIVE AddAll(_, _, _)
AddAll(b, final_rels, i) ==
    IF i > Len(final_rels) THEN b
    ELSE AddAll(add_relationship(b, final_rels[i][1][1], final_rels[i][1][2],
                                 final_rels[i][2]),
                final_rels, i + 1)

\* A plausible slip: no aggregation, one add_relationship per raw mention
\* (the shape of phase 3 in the older char_graph.py).
RECURSIVE AddEachMention(_, _, _)
AddEachMention(b, flat, i) ==
    IF i > Len(flat) THEN b
    ELSE LET target_canonical ==
                 get_canonical_name(b.alias_map,
                                    normalize_page_title(flat[i].rel.target))
         IN  AddEachMention(
                 IF flat[i].source \in DOMAIN b.entities
                    /\ target_canonical \in DOMAIN b.entities
                 THEN add_relationship(b, flat[i].source, target_canonical,
                                       flat[i].rel.types)
                 ELSE b,
                 flat, i + 1)

Phase3_per_mention(b, all_rels) == AddEachMention(b, Flatten(all_rels, 1), 1)

Phase3(b, all_rels) ==
    AddAll(b, Aggregate(Flatten(all_rels, 1), 1, b.alias_map, b.entities, <<>>), 1)

\* The builder's fields as one record, and back.
Builder == [alias_map |-> alias_map, entities |-> entities,
            graph_nodes |-> graph_nodes, graph_edges |-> graph_edges,
            relationships |-> relationships, requests |-> requests,
            answered |-> answered, creations |-> creations]

SetBuilder(b) ==
    /\ alias_map' = b.alias_map
    /\ entities' = b.entities
    /\ graph_nodes' = b.graph_nodes
    /\ graph_edges' = b.graph_edges
    /\ relationships' = b.relationships
    /\ requests' = b.requests
    /\ answered' = b.answered
    /\ creations' = b.creations

-----------------------------------------------------------------------------
(* CR_episode_graph.py, EpisodeGraphVisualizer: the wiki resolver.         *)
(*                                                                         *)
(* Line 37 of __init__ reads a name, sequenced, that the module binds      *)
(* nowhere, so __init__ completes only where that name is bound.  The      *)
(* methods are modelled on the object its other lines set up (empty        *)
(* caches, the override table, the honorifics, the episode patterns).      *)

One == 1000000

\* x * (p / 100), for a confidence x in millionths
Pct(x, p) == (x * p) \div 100

Min(a, b) == IF a < b THEN a ELSE b

Max(a, b) == IF a > b THEN a ELSE b

target_campaign == 4

\* The words of the model that consist of \w characters only, the words
\* that start with an episode code (\d+x\d+), and the parenthesised words.
WordTokens == {"the", "a", "of", "fall", "sir", "julien", "davinos", "torn",
               "banner", "campaign", "tale"}
EpisodeCodeTokens == {"4x01"}
ParenTokens == {"(artifact)"}

\* The entries of the override table for the labels of the model.
manual_overrides ==
    (<<"sir", "julien", "davinos">> :> <<"julien", "davinos">>) @@
    (<<"torn", "banner", "(artifact)">> :> <<"torn", "banner">>)

honorifics ==
    {"sir", "lady", "lord", "king", "queen", "prince", "princess", "duke",
     "duchess", "baron", "baroness", "count", "countess", "master",
     "mistress", "captain", "general", "admiral"}

\* re.match with IGNORECASE of '^The\s+\w+\s+of\s+', '^A\s+\w+\s+of\s+' and
\* '^\w+\s+\d+x\d+': the trailing \s+ of the first two needs a fourth word.
is_episode_title(title) ==
    \/ /\ Len(title) >= 4
       /\ title[1] = "the" /\ title[2] \in WordTokens /\ title[3] = "of"
    \/ /\ Len(title) >= 4
       /\ title[1] = "a" /\ title[2] \in WordTokens /\ title[3] = "of"
    \/ /\ Len(title) >= 2
       /\ title[1] \in WordTokens /\ title[2] \in EpisodeCodeTokens

\* The page type a misplaced emptiness test would report: "no content"
\* is looked at before the title.
detect_page_type_content_first(soup, page_title, llm) ==
    IF ~soup.has_text
    THEN [type |-> "unknown", confidence |-> 0, oracle |-> 0, raised |-> FALSE]
    ELSE IF is_episode_title(page_title)
    THEN [type |-> "episode", confidence |-> One, oracle |-> 0,
          raised |-> FALSE]
    ELSE [type |-> llm.type, confidence |-> llm.confidence, oracle |-> 1,
          raised |-> FALSE]

\* detect_page_type: (type, confidence), the number of oracle requests it
\* made, and whether it raised.  llm is the oracle's behaviour: "ok" with a
\* type and a confidence, "error" (the request fails or the reply is not
\* JSON), or "raise" (a confidence that float() rejects: the ValueError is
\* not among the exceptions the method catches).
detect_page_type(soup, page_title, llm) ==
    IF is_episode_title(page_title)
    THEN [type |-> "episode", confidence |-> One, oracle |-> 0,
          raised |-> FALSE]
    ELSE IF ~soup.has_text
    THEN [type |-> "unknown", confidence |-> 0, oracle |-> 0, raised |-> FALSE]
    ELSE IF llm.kind = "error"
    THEN [type |-> "unknown", confidence |-> 0, oracle |-> 1, raised |-> FALSE]
    ELSE IF llm.kind = "raise"
    THEN [type |-> "unknown", confidence |-> 0, oracle |-> 1, raised |-> TRUE]
    ELSE [type |-> llm.type, confidence |-> llm.confidence, oracle |-> 1,
          raised |-> FALSE]

extract_campaigns_from_page(soup) ==
    [infobox_campaigns |-> soup.infobox_campaigns,
     all_campaigns |-> soup.infobox_campaigns \cup soup.text_campaigns]

compatible_types == {{"event", "historical_event"}, {"object", "artifact"}}

\* validate_page_type after its call of detect_page_type, whose result is d.
TypeConfidence(soup, expected_type, d) ==
    LET after_header == IF soup.header_episode
                        THEN d.confidence - 800000
                        ELSE d.confidence
        direct == d.type = expected_type
        is_compatible ==
            \/ direct
            \/ \E group \in compatible_types :
                   expected_type \in group /\ d.type \in group
        boosted == IF direct THEN Min(One, after_header + 100000)
                   ELSE after_header
        penalised == IF ~is_compatible /\ d.type # "unknown"
                     THEN Pct(boosted, 85)
                     ELSE boosted
    IN  IF d.raised
        THEN [confidence |-> 0, detected |-> d.type, oracle |-> d.oracle,
              raised |-> TRUE]
        ELSE IF d.type = "episode"
        THEN [confidence |-> 0, detected |-> d.type, oracle |-> d.oracle,
              raised |-> FALSE]
        ELSE [confidence |-> Max(0, Min(One, penalised)),
              detected |-> d.type, oracle |-> d.oracle, raised |-> FALSE]

validate_page_type(soup, expected_type, page_title, llm) ==
    TypeConfidence(soup, expected_type,
                   detect_page_type(soup, page_title, llm))

validate_campaign(campaign_data) ==
    LET infobox_campaigns == campaign_data.infobox_campaigns
        all_campaigns == campaign_data.all_campaigns
    IN  IF all_campaigns = {}
        THEN [confidence |-> 600000, has_explicit_tags |-> FALSE,
              is_wrong_campaign |-> FALSE]
        ELSE IF infobox_campaigns # {}
        THEN IF target_campaign \in infobox_campaigns
             THEN IF Cardinality(infobox_campaigns) = 1
                  THEN [confidence |-> One, has_explicit_tags |-> TRUE,
                        is_wrong_campaign |-> FALSE]
                  ELSE [confidence |-> 900000, has_explicit_tags |-> TRUE,
                        is_wrong_campaign |-> FALSE]
             ELSE [confidence |-> 100000, has_explicit_tags |-> TRUE,
                   is_wrong_campaign |-> TRUE]
        ELSE IF target_campaign \in all_campaigns
        THEN IF Cardinality(all_campaigns) = 1
             THEN [confidence |-> 850000, has_explicit_tags |-> TRUE,
                   is_wrong_campaign |-> FALSE]
             ELSE [confidence |-> 700000, has_explicit_tags |-> TRUE,
                   is_wrong_campaign |-> FALSE]
        ELSE [confidence |-> 150000, has_explicit_tags |-> TRUE,
              is_wrong_campaign |-> TRUE]

\* validate_final_match: the oracle's confidence when it says "match", 0.0
\* when it says "no match", 0.5 when the request or its parsing fails.
validate_final_match(llm) ==
    IF llm.kind = "error" THEN 500000
    ELSE IF llm.is_match THEN llm.confidence
    ELSE 0

\* extract_implicit_campaign_signals asks the oracle unless the page has
\* fewer than 100 characters of text; its answer only feeds a local that is
\* not read again.
implicit_signal_requests(soup) == IF soup.has_text THEN 1 ELSE 0

Words(s) == Range(s)

\* score_search_result: the score times n (the number of distinct words of
\* the query, 1 if there is none), so that word_coverage * 50 stays exact.
score_search_result(node_label, result) ==
    LET title == result.title
        node_words == Words(node_label)
        n == Max(1, Cardinality(node_words))
        word_overlap == Cardinality(node_words \cap Words(title))
        base == IF title = node_label THEN 100 * n
                ELSE (IF node_words # {} THEN word_overlap * 50 ELSE 0)
                     + (IF word_overlap = Cardinality(node_words)
                        THEN 20 * n ELSE 0)
        episode == IF is_episode_title(title) THEN base - 50 * n ELSE base
        score == IF result.size < 100 THEN episode - 20 * n
                 ELSE IF result.size > 1000 THEN episode + 10 * n
                 ELSE episode
    IN  [score |-> score, n |-> n, should_validate |-> score > 20 * n]

\* Python's None where a result dict is expected.
NoUrl == <<>>

NoneResult ==
    [image_url |-> "None", page_url |-> NoUrl, confidence |-> 0,
     verdict |-> "None"]

\* f"{self.base_url}/wiki/{page_wiki_name}"
PageUrl(page_title) == <<"wiki">> \o page_title

\* (None, None, confidence, reasons); the list of reasons is kept as the
\* exit that produced it.
Rejected(confidence, verdict) ==
    [image_url |-> "None", page_url |-> NoUrl, confidence |-> confidence,
     verdict |-> verdict]

\* "Check for name subset issues"
has_name_concern(node_label, page_title) ==
    LET node_words == Words(node_label)
        title_words == Words(page_title)
    IN  /\ node_words \subseteq title_words /\ node_words # title_words
        /\ Cardinality(title_words \ node_words) >= Cardinality(node_words)

\* A veto that looks at every campaign the page mentions instead of the
\* infobox's.
HardReject_all_campaigns(campaign_data) ==
    /\ campaign_data.all_campaigns # {}
    /\ target_campaign \notin campaign_data.all_campaigns

\* LAYER 1: "if infobox_campaigns and self.target_campaign not in
\* infobox_campaigns"
HardReject(campaign_data) ==
    /\ campaign_data.infobox_campaigns # {}
    /\ target_campaign \notin campaign_data.infobox_campaigns

\* What a validation did, next to its result: the oracle requests, the
\* detected type, and the campaigns extract_campaigns_from_page found.
ValidationOutcome(result, oracle, detected, campaign_data) ==
    [result |-> result, oracle |-> oracle, detected |-> detected,
     infobox_campaigns |-> campaign_data.infobox_campaigns,
     all_campaigns |-> campaign_data.all_campaigns]

\* LAYER 2 and LAYER 3 of fetch_and_validate_page: t is the result of
\* validate_page_type, c that of validate_campaign, match_confidence that
\* of validate_final_match if it is called.
Layers(page_title, node_label, soup, t, c, match_confidence) ==
    LET prelim_confidence ==
            IF page_title = node_label
            THEN Pct(t.confidence, 50) + Pct(c.confidence, 50)
            ELSE Pct(t.confidence, 70) + Pct(c.confidence, 30)
        needs_llm_validation ==
            \/ prelim_confidence < 800000
            \/ has_name_concern(node_label, page_title)
            \/ ~c.has_explicit_tags
        implicit == IF ~c.has_explicit_tags
                    THEN implicit_signal_requests(soup) ELSE 0
        final_confidence ==
            IF needs_llm_validation
            THEN IF prelim_confidence < 600000
                 THEN Pct(prelim_confidence, 30) + Pct(match_confidence, 70)
                 ELSE Pct(prelim_confidence, 50) + Pct(match_confidence, 50)
            ELSE prelim_confidence
        oracle == IF needs_llm_validation THEN t.oracle + implicit + 1
                  ELSE t.oracle
        seen == extract_campaigns_from_page(soup)
    IN  IF t.raised
        THEN ValidationOutcome(Rejected(0, "error"), t.oracle, "none", seen)
        ELSE IF prelim_confidence < 250000
        THEN ValidationOutcome(Rejected(0, "heuristic_reject"), t.oracle,
                               t.detected, seen)
        ELSE IF needs_llm_validation /\ match_confidence < 500000
        THEN ValidationOutcome(Rejected(0, "llm_reject"), oracle, t.detected,
                               seen)
        ELSE IF final_confidence < 400000
        THEN ValidationOutcome(Rejected(final_confidence, "low_confidence"),
                               oracle, t.detected, seen)
        ELSE ValidationOutcome([image_url |-> soup.image_url,
                                page_url |-> PageUrl(page_title),
                                confidence |-> final_confidence,
                                verdict |-> "accepted"],
                               oracle, t.detected, seen)

\* The body of fetch_and_validate_page on a cache miss.  ans is what the
\* outside world answers: whether the page request succeeds, the page
\* (soup), and the behaviour of the type and match oracles.
ValidatePage(page_title, node_label, node_type, ans) ==
    IF ~ans.fetch_ok
    THEN ValidationOutcome(Rejected(0, "error"), 0, "none",
                           [infobox_campaigns |-> {}, all_campaigns |-> {}])
    ELSE IF HardReject(extract_campaigns_from_page(ans.soup))
    THEN ValidationOutcome(
             Rejected(0, "hard_reject"), 0, "none",
             extract_campaigns_from_page(ans.soup))
    ELSE Layers(page_title, node_label, ans.soup,
                validate_page_type(ans.soup, node_type, page_title,
                                   ans.type_llm),
                validate_campaign(extract_campaigns_from_page(ans.soup)),
                validate_final_match(ans.match_llm))

\* f"{page_title}|{node_type}"
cache_key(page_title, node_type) == <<page_title, node_type>>

\* An exception path that returns without "self.validation_cache[cache_key]
\* = result".
Validation_unless_error(cache, key, v) ==
    [cache |-> IF v.result.verdict = "error" THEN cache
               ELSE Put(cache, key, v.result),
     result |-> v.result,
     ran |-> TRUE, fetch |-> 1, oracle |-> v.oracle,
     detected |-> v.detected,
     infobox_campaigns |-> v.infobox_campaigns,
     all_campaigns |-> v.all_campaigns]

\* "self.validation_cache[cache_key] = result; return result"
Validation(cache, key, v) ==
    [cache |-> Put(cache, key, v.result), result |-> v.result,
     ran |-> TRUE, fetch |-> 1, oracle |-> v.oracle,
     detected |-> v.detected,
     infobox_campaigns |-> v.infobox_campaigns,
     all_campaigns |-> v.all_campaigns]

\* fetch_and_validate_page: the cached result, or the validation and its
\* entry in the cache.
fetch_and_validate_page(cache, page_title, node_label, node_type, ans) ==
    IF cache_key(page_title, node_type) \in DOMAIN cache
    THEN [cache |-> cache, result |-> cache[cache_key(page_title, node_type)],
          ran |-> FALSE, fetch |-> 0, oracle |-> 0, detected |-> "none",
          infobox_campaigns |-> {}, all_campaigns |-> {}]
    ELSE Validation(cache, cache_key(page_title, node_type),
                    ValidatePage(page_title, node_label, node_type, ans))

strip_honorifics(name) ==
    IF name # <<>> /\ name[1] \in honorifics THEN Tail(name) ELSE name

\* re.sub(r'\s*\([^)]*\)\s*$', '', node_label).strip()
clean_label(node_label) ==
    IF node_label # <<>> /\ node_label[Len(node_label)] \in ParenTokens
    THEN SubSeq(node_label, 1, Len(node_label) - 1)
    ELSE node_label

\* search_queries of fetch_wiki_image
SearchQueries(node_label) ==
    LET with_clean == IF clean_label(node_label) # node_label
                      THEN <<clean_label(node_label), node_label>>
                      ELSE <<node_label>>
    IN  IF strip_honorifics(node_label) # node_label
        THEN Append(with_clean, strip_honorifics(node_label))
        ELSE with_clean

\* "if confidence > 0.35": an override threshold mistaken for the
\* high-confidence one.
override_accepted_high(confidence) == confidence > 850000

\* An override test that lets a rejected validation through.
override_accepted_any(confidence) == confidence >= 0

\* "if confidence > 0.35" on the manual-override path
override_accepted(confidence) == confidence > 350000

\* A final branch that forgets "self.image_cache[node_label] = None".
CacheOutcome_found_only(cache, node_label, outcome) ==
    IF outcome = NoneResult THEN cache ELSE Put(cache, node_label, outcome)

\* "self.image_cache[node_label] = ..." on every exit of fetch_wiki_image
CacheOutcome(cache, node_label, outcome) == Put(cache, node_label, outcome)

\* "if best_result and best_confidence >= 0.4"
FinalOutcome(best_result, best_confidence) ==
    IF best_result # NoneResult /\ best_confidence >= 400000
    THEN best_result
    ELSE NoneResult

-----------------------------------------------------------------------------
(* The world of the resolver: graph nodes, wiki pages, search answers and  *)
(* oracle behaviours the model draws from.                                 *)

Node(label, type) == [label |-> label, type |-> type]

SirJulien == Node(<<"sir", "julien", "davinos">>, "character")
Julien == Node(<<"julien", "davinos">>, "character")
TheFall == Node(<<"the", "fall", "of", "davinos">>, "event")
TornBanner == Node(<<"torn", "banner", "(artifact)">>, "object")

\* The graphs handed to enhance_graph, as the list of their nodes; two
\* nodes may carry the same label.
Graphs ==
    {<<SirJulien, SirJulien>>, <<Julien, SirJulien>>, <<SirJulien, Julien>>,
     <<TheFall, TheFall>>, <<TornBanner, TornBanner>>, <<Julien, Julien>>}

Soup(infobox, text, has_text, header, image) ==
    [infobox_campaigns |-> infobox, text_campaigns |-> text,
     has_text |-> has_text, header_episode |-> header, image_url |-> image]

\* Pages as the code reads them: the campaigns of the infobox, those of
\* the rest of the page, whether infobox or paragraphs have text, whether
\* the header says "episode" or "transcript", the infobox image.
Soups ==
    {Soup({}, {}, TRUE, FALSE, "img"),
     Soup({4}, {}, TRUE, FALSE, "img"),
     Soup({2, 4}, {}, TRUE, FALSE, "img"),
     Soup({2}, {4}, TRUE, FALSE, "img"),
     Soup({}, {4}, TRUE, FALSE, "None"),
     Soup({}, {2, 4}, TRUE, FALSE, "img"),
     Soup({}, {3}, TRUE, FALSE, "img"),
     Soup({}, {}, FALSE, FALSE, "None"),
     Soup({4}, {}, TRUE, TRUE, "img")}

TypeLLM(kind, type, confidence) ==
    [kind |-> kind, type |-> type, confidence |-> confidence]

TypeAnswers ==
    {TypeLLM("ok", "character", 900000),
     TypeLLM("ok", "location", 900000),
     TypeLLM("ok", "artifact", 800000),
     TypeLLM("ok", "event", 900000),
     TypeLLM("ok", "episode", 900000),
     TypeLLM("error", "unknown", 0),
     TypeLLM("raise", "unknown", 0)}

MatchLLM(kind, is_match, confidence) ==
    [kind |-> kind, is_match |-> is_match, confidence |-> confidence]

MatchAnswers ==
    {MatchLLM("ok", TRUE, 900000),
     MatchLLM("ok", TRUE, 500000),
     MatchLLM("ok", TRUE, 300000),
     MatchLLM("ok", FALSE, 900000),
     MatchLLM("error", FALSE, 0)}

\* What the outside world answers to one validation.
Answers ==
    {[fetch_ok |-> FALSE, soup |-> Soup({}, {}, FALSE, FALSE, "None"),
      type_llm |-> TypeLLM("error", "unknown", 0),
      match_llm |-> MatchLLM("error", FALSE, 0)]}
    \cup [fetch_ok : {TRUE}, soup : Soups, type_llm : TypeAnswers,
          match_llm : MatchAnswers]

\* No answer: no validation asked for.
NoAnswer ==
    [fetch_ok |-> FALSE, soup |-> Soup({}, {}, FALSE, FALSE, "None"),
     type_llm |-> TypeLLM("error", "unknown", 0),
     match_llm |-> MatchLLM("error", FALSE, 0)]

Hit(title, size) == [title |-> title, size |-> size]

\* What the search API answers to one query: a failure, or a result list.
SearchAnswers ==
    {[ok |-> FALSE, results |-> <<>>],
     [ok |-> TRUE, results |-> <<>>],
     [ok |-> TRUE, results |-> <<Hit(<<"julien", "davinos">>, 5000)>>],
     [ok |-> TRUE, results |-> <<Hit(<<"the", "fall", "of", "davinos">>, 5000),
                                 Hit(<<"julien", "davinos">>, 500)>>],
     [ok |-> TRUE, results |-> <<Hit(<<"torn", "banner">>, 50),
                                 Hit(<<"torn", "banner", "(artifact)">>, 500)>>]}

\* What the search API answers to a given query: one of the above, or, for
\* "the fall of davinos", two pages that both share most of its words.
SearchAnswersFor(query) ==
    IF query = <<"the", "fall", "of", "davinos">>
    THEN SearchAnswers
             \cup {[ok |-> TRUE,
                    results |-> <<Hit(<<"fall", "of", "davinos">>, 5000),
                                  Hit(<<"davinos", "fall">>, 500)>>]}
    ELSE SearchAnswers

\* Titles handed to detect_page_type.
DetectTitles ==
    {<<"the", "fall", "of", "davinos">>, <<"a", "tale", "of", "davinos">>,
     <<"campaign", "4x01">>, <<"the", "fall", "of">>,
     <<"the", "(artifact)", "of", "davinos">>, <<"fall", "of", "the", "banner">>,
     <<"julien", "davinos">>, <<"torn", "banner">>}

NotCalled ==
    [type |-> "", confidence |-> 0, oracle |-> 0, raised |-> FALSE]

\* No call of detect_page_type under way.
DetectIdle ==
    /\ det_title = <<>>
    /\ det_soup = Soup({}, {}, FALSE, FALSE, "None")
    /\ det_llm = TypeLLM("error", "unknown", 0)
    /\ det_result = NotCalled

NoIO == [fetch |-> 0, search |-> 0, oracle |-> 0]

NoValidation ==
    [ran |-> FALSE, page_title |-> <<>>, node_type |-> "",
     infobox_campaigns |-> {}, all_campaigns |-> {},
     detected |-> "none", oracle |-> 0, result |-> NoneResult]

IdleCall ==
    [pc |-> "idle", node_label |-> <<>>, node_type |-> "",
     search_queries |-> <<>>, qi |-> 0, search_results |-> <<>>, ri |-> 0,
     best_result |-> NoneResult, best_confidence |-> 0,
     again |-> FALSE, override_confidence |-> -1, validated |-> <<>>]

\* The visualizer with no graph to enhance.
ResolveIdle ==
    /\ image_cache = <<>>
    /\ validation_cache = <<>>
    /\ call = IdleCall
    /\ io = NoIO
    /\ ret = NoneResult
    /\ pending = <<>>
    /\ first_ret = <<>>
    /\ last_val = NoValidation

-----------------------------------------------------------------------------
(* Graph documents: load_json and run of EpisodeGraphVisualizer            *)
(* (CR_episode_graph.py) and json_to_gml (json_to_gml.py).  A string of a  *)
(* document is the sequence of its characters; Absent stands for a key the *)
(* JSON object does not have.                                              *)

Absent == <<"<absent>">>

\* What escape_gml_string makes of one character: accents are stripped,
\* other non-ASCII characters dropped, the backslash doubled, the double
\* quote, brackets and braces substituted, ";" and "|" turned into a space.
EscapeChar(c) ==
    CASE c = "e_acute" -> <<"e">>
      [] c = "eszett" -> <<>>
      [] c = "\\" -> <<"\\", "\\">>
      [] c = "\"" -> <<"'">>
      [] c \in {";", "|"} -> <<" ">>
      [] c \in {"[", "{"} -> <<"(">>
      [] c \in {"]", "}"} -> <<")">>
      [] OTHER -> <<c>>

RECURSIVE EscapeChars(_)
EscapeChars(s) ==
    IF s = <<>> THEN <<>> ELSE EscapeChar(Head(s)) \o EscapeChars(Tail(s))

\* re.sub(r'\s+', ' ', s)
RECURSIVE CollapseSpaces(_)
CollapseSpaces(s) ==
    IF Len(s) < 2 THEN s
    ELSE IF s[1] = " " /\ s[2] = " " THEN CollapseSpaces(Tail(s))
    ELSE <<s[1]>> \o CollapseSpaces(Tail(s))

\* s.strip() of a string whose runs of spaces are collapsed
Strip(s) ==
    LET a == IF s # <<>> /\ Head(s) = " " THEN Tail(s) ELSE s
    IN  IF a # <<>> /\ a[Len(a)] = " " THEN SubSeq(a, 1, Len(a) - 1) ELSE a

escape_gml_string(s) == Strip(CollapseSpaces(EscapeChars(s)))

DocNode(id, label, type) == [id |-> id, label |-> label, type |-> type]

DocEdge(source, target, relationship) ==
    [source |-> source, target |-> target, relationship |-> relationship]

\* "if not x" for a string read with .get: missing or empty.
Falsy(x) == x = Absent \/ x = <<>>

\* The node attributes add_node records: those the document gives; an id
\* seen again keeps the attributes the later entry does not give.
MergeNode(old, node) ==
    [label |-> IF node.label = Absent THEN old.label ELSE node.label,
     type |-> IF node.type = Absent THEN old.type ELSE node.type]

NoAttributes == [label |-> Absent, type |-> Absent]

\* "for node_data in nodes" of the nodes/edges branch
RECURSIVE LoadNodes(_, _)
LoadNodes(g, nodes) ==
    IF nodes = <<>> THEN g
    ELSE LET node == Head(nodes)
         IN  IF Falsy(node.id) THEN LoadNodes(g, Tail(nodes))
             ELSE LoadNodes(
                      Put(g, node.id,
                          MergeNode(Get(g, node.id, NoAttributes), node)),
                      Tail(nodes))

\* node_data.get('type', 'unknown').lower().replace(' ', '_')
LowerChar(c) ==
    CASE c = "N" -> "n"
      [] c = "P" -> "p"
      [] c = "C" -> "c"
      [] c = " " -> "_"
      [] OTHER -> c

Unknown == <<"u", "n", "k", "n", "o", "w", "n">>

LowerType(type) ==
    IF type = Absent THEN Unknown
    ELSE [i \in DOMAIN type |-> LowerChar(type[i])]

\* "for node_id, node_data in entities.items()"
RECURSIVE LoadEntities(_, _)
LoadEntities(g, nodes) ==
    IF nodes = <<>> THEN g
    ELSE LET node == Head(nodes)
         IN  LoadEntities(
                 Put(g, node.id,
                     [label |-> IF node.label = Absent THEN node.id
                                ELSE node.label,
                      type |-> LowerType(node.type)]),
                 Tail(nodes))

Related == <<"r", "e", "l", "a", "t", "e", "d">>

\* A test that only asks for both endpoints to be given.
EdgeLoadable_given(g, edge) == ~Falsy(edge.source) /\ ~Falsy(edge.target)

\* "if source and target and self.graph.has_node(source) and
\* self.graph.has_node(target)"
EdgeLoadable(g, edge) ==
    /\ ~Falsy(edge.source) /\ ~Falsy(edge.target)
    /\ edge.source \in DOMAIN g /\ edge.target \in DOMAIN g

\* "for edge_data in edges": add_edge keeps one edge per (source, target)
\* and the later label wins; default is the label given to an edge
\* without one (none in the nodes/edges branch, 'related' in the other).
RECURSIVE LoadEdges(_, _, _, _)
LoadEdges(g, es, edges, default) ==
    IF edges = <<>> THEN es
    ELSE LET edge == Head(edges)
             key == <<edge.source, edge.target>>
             label == IF edge.relationship = Absent
                      THEN Get(es, key, default)
                      ELSE edge.relationship
         IN  IF EdgeLoadable(g, edge)
             THEN LoadEdges(g, Put(es, key, label), Tail(edges), default)
             ELSE LoadEdges(g, es, Tail(edges), default)

NoGraph == [ok |-> FALSE, nodes |-> <<>>, edges |-> <<>>]

\* A loader that takes a document of neither shape for an empty graph.
load_json_lenient(data) ==
    IF {"nodes", "edges"} \subseteq data.keys
    THEN LET g == LoadNodes(<<>>, data.nodes)
         IN  [ok |-> TRUE, nodes |-> g,
              edges |-> LoadEdges(g, <<>>, data.edges, Absent)]
    ELSE [NoGraph EXCEPT !.ok = TRUE]

\* load_json: its return value and self.graph
load_json(data) ==
    IF {"nodes", "edges"} \subseteq data.keys
    THEN LET g == LoadNodes(<<>>, data.nodes)
         IN  [ok |-> TRUE, nodes |-> g,
              edges |-> LoadEdges(g, <<>>, data.edges, Absent)]
    ELSE IF {"entities", "relationships"} \subseteq data.keys
    THEN LET g == LoadEntities(<<>>, data.nodes)
         IN  [ok |-> TRUE, nodes |-> g,
              edges |-> LoadEdges(g, <<>>, data.edges,
                                  Related)]
    ELSE NoGraph

\* f"node_{idx}"
NodeDefault(idx) == << <<"node_1", "node_2", "node_3", "node_4">>[idx] >>

\* A numbering that starts at 0.
NodeIndex_from_zero(i) == i - 1

\* The numbering "enumerate(nodes, start=1)" gives the i-th node.
NodeIndex(i) == i

\* "node_id_map": first the id, then the label of each node, a later
\* entry replacing an earlier one under the same key.
RECURSIVE NodeIdMap(_, _, _)
NodeIdMap(map, nodes, i) ==
    IF i > Len(nodes) THEN map
    ELSE LET node == nodes[i]
             original_id == IF node.id = Absent THEN NodeDefault(i)
                            ELSE node.id
             by_id == Put(map, original_id, NodeIndex(i))
         IN  NodeIdMap(IF node.label = Absent THEN by_id
                       ELSE Put(by_id, node.label, NodeIndex(i)),
                       nodes, i + 1)

\* The node block of the i-th node.
NodeBlock(nodes, i) ==
    LET node == nodes[i]
        label == IF node.label # Absent THEN node.label
                 ELSE IF node.id # Absent THEN node.id
                 ELSE NodeDefault(i)
    IN  [id |-> NodeIndex(i), label |-> escape_gml_string(label),
         type |-> escape_gml_string(IF node.type = Absent THEN Unknown
                                    ELSE node.type)]

\* str(edge.get('source', ''))
EndpointKey(x) == IF x = Absent THEN <<>> ELSE x

\* The edge blocks, in input order, and the count of skipped edges.
RECURSIVE EdgeBlocks(_, _)
EdgeBlocks(map, edges) ==
    IF edges = <<>> THEN <<>>
    ELSE LET edge == Head(edges)
             source == EndpointKey(edge.source)
             target == EndpointKey(edge.target)
             relationship ==
                 IF edge.relationship = Absent
                 THEN Related
                 ELSE edge.relationship
         IN  IF source \notin DOMAIN map \/ target \notin DOMAIN map
             THEN EdgeBlocks(map, Tail(edges))
             ELSE << [source |-> map[source], target |-> map[target],
                      label |-> escape_gml_string(relationship)] >>
                  \o EdgeBlocks(map, Tail(edges))

NoGml == [written |-> FALSE, nodes |-> <<>>, edges |-> <<>>, skipped |-> 0]

\* json_to_gml: the node and edge blocks of the file it writes.  Both
\* lists are read with data.get(key, []).
json_to_gml(data) ==
    LET nodes == IF "nodes" \in data.keys THEN data.nodes ELSE <<>>
        edges == IF "edges" \in data.keys THEN data.edges ELSE <<>>
        blocks == EdgeBlocks(NodeIdMap(<<>>, nodes, 1), edges)
    IN  [written |-> TRUE,
         nodes |-> [i \in DOMAIN nodes |-> NodeBlock(nodes, i)],
         edges |-> blocks,
         skipped |-> Len(edges) - Len(blocks)]

MaxNodes == 2

MaxEdges == 2

\* Nodes of documents: an accented label; a label that is another node's
\* id; a node without id and type, its label with a bracket; a node
\* without label.
NodePool ==
    {DocNode(<<"a">>, <<"a", " ", "e_acute">>, <<"n", "p", "c">>),
     DocNode(<<"b">>, <<"a">>, <<"N", "P", "C">>),
     DocNode(Absent, <<"b", "[">>, Absent),
     DocNode(<<"c">>, Absent, <<"P", " ", "C">>)}

\* Edges of documents: between ids of the pool, towards an id no node
\* has, by a label, without a relationship.
EdgePool ==
    {DocEdge(<<"a">>, <<"b">>, <<"a", "l", "l", "y">>),
     DocEdge(<<"b">>, <<"c">>, <<"f", "o", "e", ";", " ", "k", "i", "n">>),
     DocEdge(<<"a">>, <<"d">>, <<"a", "l", "l", "y">>),
     DocEdge(<<"b", "[">>, <<"a">>, Absent)}

\* The top-level keys a document has, among those the loaders look for.
KeySets ==
    {{}, {"nodes"}, {"nodes", "edges"}, {"entities", "relationships"},
     {"entities", "edges"}}

NodeIds(nodes) == [i \in DOMAIN nodes |-> nodes[i].id]

Distinct(s) == \A i, j \in DOMAIN s : i # j => s[i] # s[j]

\* The documents.  The entities of the second shape are the members of a
\* JSON object, so each has an id and no two share one.
Documents ==
    {d \in [keys : KeySets, nodes : SeqsUpTo(NodePool, MaxNodes),
            edges : SeqsUpTo(EdgePool, MaxEdges)] :
        "entities" \in d.keys =>
            /\ Distinct(NodeIds(d.nodes))
            /\ \A i \in DOMAIN d.nodes : d.nodes[i].id # Absent}

NoDocument == [keys |-> {}, nodes |-> <<>>, edges |-> <<>>]

NotRun == [called |-> FALSE, ret |-> FALSE, reached |-> {}]

\* No document handed to the visualizer or the converter.
DocumentIdle ==
    /\ document = NoDocument
    /\ graph = NoGraph
    /\ run = NotRun
    /\ gml = NoGml

-----------------------------------------------------------------------------
(* episode_graph.py, EpisodeGraphBuilder: extract_episode_data_with_llm,   *)
(* process_character_node, add_simple_node and build_graph_for_episode.    *)
(* Names and page titles are opaque normalized strings.                    *)

\* An entry of key_events; complete says it has both 'event' and 'summary'.
Event(participants, complete) ==
    [participants |-> participants, complete |-> complete]

\* The JSON object of the summary oracle.  empty is the object {}.
EpisodeData(empty, characters, locations, events, plots) ==
    [empty |-> empty, characters_present |-> characters,
     locations_visited |-> locations, key_events |-> events,
     plot_points_revealed |-> plots]

NoData == EpisodeData(TRUE, <<>>, <<>>, <<>>, 0)

\* "return None" of extract_episode_data_with_llm
ReturnNone == [is_none |-> TRUE, data |-> NoData]

\* "return data, synopsis_soup"
ReturnPair(data) == [is_none |-> FALSE, data |-> data]

\* extract_episode_data_with_llm(soup).  llm_cache is empty at the one
\* call build_graph_for_episode makes, so the oracle is asked whenever the
\* page has a synopsis.
extract_episode_data_with_llm(soup, llm) ==
    IF ~soup.has_content THEN ReturnNone
    ELSE IF ~soup.has_section THEN ReturnNone
    ELSE IF ~soup.has_synopsis THEN ReturnNone
    ELSE IF llm.kind \in {"timeout", "exception"} THEN ReturnNone
    ELSE IF llm.kind = "status" THEN ReturnNone
    ELSE IF ~llm.has_object THEN ReturnNone
    ELSE IF ~llm.valid_json THEN ReturnNone
    ELSE ReturnPair(llm.data)

\* "episode_data, synopsis_soup = self.extract_episode_data_with_llm(soup)"
\* followed by "if not episode_data": None is not iterable, so unpacking
\* it raises TypeError before the test is reached.
Unpack(r) ==
    IF r.is_none
    THEN [raised |-> TRUE, episode_data |-> NoData, falsy |-> TRUE]
    ELSE [raised |-> FALSE, episode_data |-> r.data, falsy |-> r.data.empty]

\* add_simple_node: "if node_id in self.entities: return"
add_simple_node(ents, node_id, node_type) ==
    IF node_id \in DOMAIN ents THEN ents ELSE Put(ents, node_id, node_type)

\* The loops over locations_visited, key_events and plot_points_revealed
\* of phase 1.
RECURSIVE AddSimpleNodes(_, _, _)
AddSimpleNodes(ents, ids, node_type) ==
    IF ids = <<>> THEN ents
    ELSE AddSimpleNodes(add_simple_node(ents, Head(ids), node_type),
                        Tail(ids), node_type)

\* The page title a character name resolves to: the href of its link in
\* the synopsis, else the name itself.
ResolveName(soup, name) ==
    IF name \in DOMAIN soup.links THEN soup.links[name] ELSE name

\* process_character_node(page_title); out is None when the page request
\* fails, else [canonical_name, entity_type].
process_character_node(ents, page_title, out) ==
    IF page_title \in DOMAIN ents THEN ents
    ELSE IF out.canonical_name = "None"
    THEN add_simple_node(ents, page_title, "Unknown Character")
    ELSE IF out.canonical_name \in DOMAIN ents THEN ents
    ELSE Put(ents, out.canonical_name, out.entity_type)

\* f"event_{canonical_name}_{i}" and f"plot_{canonical_name}_{i}" for the
\* i-th entry, counted from 1 here.
EventId(i) == <<"event_0", "event_1">>[i]

PlotId(i) == <<"plot_0", "plot_1">>[i]

EventIds(n) == [i \in 1..n |-> EventId(i)]

PlotIds(n) == [i \in 1..n |-> PlotId(i)]

\* Phase 2 of build_graph_for_episode: the edges towards the episode node.
ConnectEdges(ents, soup, data, canonical_name) ==
    LET resolved ==
            {ResolveName(soup, data.characters_present[i]) :
                 i \in DOMAIN data.characters_present}
    IN  {<<t, canonical_name>> : t \in resolved \cap DOMAIN ents}
        \cup {<<data.locations_visited[i], canonical_name>> :
                  i \in DOMAIN data.locations_visited}
        \cup {<<EventId(i), canonical_name>> : i \in DOMAIN data.key_events}
        \cup UNION {{<<ResolveName(soup, p), EventId(i)>> :
                        p \in {q \in Range(data.key_events[i].participants) :
                                   /\ q \in Range(data.characters_present)
                                   /\ ResolveName(soup, q) \in DOMAIN ents}} :
                    i \in DOMAIN data.key_events}
        \cup {<<PlotId(i), canonical_name>> :
                  i \in 1..data.plot_points_revealed}

\* Episode pages: whether the page has a content div, a Synopsis or
\* Summary heading and text under it, and the links of the synopsis.
EpisodeSoup(has_content, has_section, has_synopsis, links) ==
    [has_content |-> has_content, has_section |-> has_section,
     has_synopsis |-> has_synopsis, links |-> links]

EpisodeSoups ==
    {EpisodeSoup(FALSE, FALSE, FALSE, <<>>),
     EpisodeSoup(TRUE, FALSE, FALSE, <<>>),
     EpisodeSoup(TRUE, TRUE, FALSE, <<>>),
     EpisodeSoup(TRUE, TRUE, TRUE, <<>>),
     EpisodeSoup(TRUE, TRUE, TRUE, [n \in {"Thim"} |-> "Thimble"])}

EpisodeDatas ==
    {NoData,
     EpisodeData(FALSE, <<>>, <<>>, <<>>, 0),
     EpisodeData(FALSE, <<"Thim", "Azune_Nayar">>, <<"Dol-Makjar">>,
                 <<Event(<<"Thim", "Vaelus">>, TRUE)>>, 1),
     EpisodeData(FALSE, <<"Thimble", "Thim">>, <<>>,
                 <<Event(<<>>, FALSE)>>, 0)}

SummaryLLM(kind, has_object, valid_json, data) ==
    [kind |-> kind, has_object |-> has_object, valid_json |-> valid_json,
     data |-> data]

\* How the summary oracle behaves: a timeout, another request error, a
\* non-200 status, a reply without a JSON object, one with an object that
\* does not parse, and well-formed replies.
SummaryAnswers ==
    {SummaryLLM("timeout", FALSE, FALSE, NoData),
     SummaryLLM("exception", FALSE, FALSE, NoData),
     SummaryLLM("status", FALSE, FALSE, NoData),
     SummaryLLM("ok", FALSE, FALSE, NoData),
     SummaryLLM("ok", TRUE, FALSE, NoData)}
    \cup {SummaryLLM("ok", TRUE, TRUE, d) : d \in EpisodeDatas}

\* What a character page request yields.
CharacterOutcomes ==
    {[canonical_name |-> "None", entity_type |-> "None"],
     [canonical_name |-> "Thimble", entity_type |-> "Player Character"],
     [canonical_name |-> "Azune_Nayar", entity_type |-> "NPC"]}

EpisodeName == "The_Fall_of_Thjazi_Fang"

\* The builder before build_graph_for_episode is called.  ep_pc is
\* "start", then "fetched" after fetch_page, "characters" in the loop over
\* characters_present, and at the end "done", "aborted" (one of the two
\* "Aborting." returns) or "raised" (an exception left the function).
EpisodeIdle ==
    /\ ep_pc = "start"
    /\ ep_soup = EpisodeSoup(FALSE, FALSE, FALSE, <<>>)
    /\ ep_llm = SummaryLLM("timeout", FALSE, FALSE, NoData)
    /\ ep_data = NoData
    /\ ep_todo = <<>>
    /\ ep_entities = <<>>
    /\ ep_edges = {}

\* No candidate handed to fetch_and_validate_page outside fetch_wiki_image.
OrderIdle ==
    order = [labels |-> <<>>, ans |-> NoAnswer, cache |-> <<>>,
             results |-> <<>>]

\* determine_entity_type not called.
ClassifyIdle ==
    classify = [builder |-> "", page_title |-> <<>>, data |-> <<>>,
                categories |-> <<>>, result |-> ""]

\* No mention handed to char_graph's add_relationship.
HeurIdle ==
    heur = [target |-> "", types |-> <<>>, done |-> 0,
            h |-> [entities |-> {}, edges |-> <<>>, relationships |-> <<>>]]

LaterIdle == OrderIdle /\ ClassifyIdle /\ HeurIdle

OtherIdle == EpisodeIdle /\ DocumentIdle /\ LaterIdle

-----------------------------------------------------------------------------
(* build_graph as a state machine *)

\* The builder before build_graph is called.
CrawlIdle ==
    /\ phase = "phase1"
    /\ queue = main_characters
    /\ processed = {}
    /\ count = 0
    /\ all_relationships = <<>>
    /\ unresolved_targets = {}
    /\ alias_map = <<>>
    /\ entities = <<>>
    /\ graph_nodes = {}
    /\ graph_edges = <<>>
    /\ relationships = <<>>
    /\ fetch_failed = FALSE
    /\ requests = <<>>
    /\ answered = <<>>
    /\ creations = <<>>
    /\ failures = {}

\* No call of get_strongest_relationship under way.
StrongestIdle == rel_types = <<>> /\ strongest_rel = ""

InitCrawl ==
    CrawlIdle /\ StrongestIdle /\ DetectIdle /\ ResolveIdle /\ OtherIdle

\* A loop that forgets its budget: "while queue".
LoopRuns_without_budget(q, c) == q # <<>>

\* "while queue and count < limit"
LoopRuns(q, c) == q # <<>> /\ c < limit

\* "if canonical in processed: continue"
Phase1Skip ==
    /\ phase = "phase1" /\ LoopRuns(queue, count)
    /\ get_canonical_name(alias_map, normalize_page_title(Head(queue)))
           \in processed
    /\ queue' = Tail(queue)
    /\ UNCHANGED <<phase, processed, count, all_relationships,
                   unresolved_targets, alias_map, entities, graph_nodes,
                   graph_edges, relationships, fetch_failed, historyVars>>
    /\ UNCHANGED notCrawl

\* One iteration of the phase-1 loop that processes a page.
Phase1Process ==
    /\ phase = "phase1" /\ LoopRuns(queue, count)
    /\ LET normalized == normalize_page_title(Head(queue))
       IN  /\ get_canonical_name(alias_map, normalized) \notin processed
           /\ \E out \in FetchOutcomes(alias_map, normalized),
                 rels \in PageRelationships :
                \E actor_out \in
                     FetchOutcomes(fetch_page(Builder, normalized, out).b.alias_map,
                                   "Laura_Bailey") :
                  LET r == process_page(Builder, normalized, out, rels, actor_out)
                      canonical == get_canonical_name(r.b.alias_map, normalized)
                      done == processed \cup {canonical}
                  IN  /\ count' = count + 1
                      /\ fetch_failed' =
                             (fetch_failed \/ out = None \/ actor_out = None)
                      /\ failures' =
                             IF r.fetched /\ out = None
                             THEN failures \cup {normalized}
                             ELSE failures
                      /\ SetBuilder(r.b)
                      /\ processed' = done
                      /\ all_relationships' =
                             DictPut(all_relationships, canonical, r.relationships)
                      /\ queue' = Enqueue(Tail(queue), r.relationships, 1,
                                          r.b.alias_map, done)
    /\ UNCHANGED <<phase, unresolved_targets>>
    /\ UNCHANGED notCrawl

\* The loop condition "queue and count < limit" fails: phase 2 collects the
\* unresolved targets.
Phase1Exit ==
    /\ phase = "phase1"
    /\ ~LoopRuns(queue, count)
    /\ phase' = "phase2"
    /\ unresolved_targets' =
           UnresolvedTargets(all_relationships, alias_map, entities)
    /\ UNCHANGED <<queue, processed, count, all_relationships, alias_map,
                   entities, graph_nodes, graph_edges, relationships,
                   fetch_failed, historyVars>>
    /\ UNCHANGED notCrawl

\* A second pass that turns the page it fetched into an entity.
Phase2Resolve_as_entity(b, target, out) ==
    IF out = None THEN fetch_page(b, target, out).b
    ELSE [fetch_page(b, target, out).b EXCEPT
             !.entities = Put(@, out, [type |-> PageData(out).ptype]),
             !.graph_nodes = @ \cup {out}]

\* "soup, canonical = self.fetch_page(target)": the results are dropped.
Phase2Resolve(b, target, out) == fetch_page(b, target, out).b

\* One iteration of "for target in unresolved_targets" (a set: any order).
Phase2Fetch ==
    /\ phase = "phase2"
    /\ \E target \in unresolved_targets :
         /\ unresolved_targets' = unresolved_targets \ {target}
         /\ IF get_canonical_name(alias_map, target) \notin DOMAIN entities
            THEN \E out \in FetchOutcomes(alias_map, target) :
                     /\ SetBuilder(Phase2Resolve(Builder, target, out))
                     /\ fetch_failed' = (fetch_failed \/ out = None)
            ELSE UNCHANGED <<alias_map, entities, graph_nodes, graph_edges,
                             relationships, fetch_failed, requests, answered,
                             creations>>
    /\ UNCHANGED <<phase, queue, processed, count, all_relationships,
                   failures>>
    /\ UNCHANGED notCrawl

\* Phase 3: aggregate and add the relationships.
Phase3Step ==
    /\ phase = "phase2" /\ unresolved_targets = {}
    /\ phase' = "done"
    /\ SetBuilder(Phase3(Builder, all_relationships))
    /\ UNCHANGED <<queue, processed, count, all_relationships,
                   unresolved_targets, fetch_failed, failures>>
    /\ UNCHANGED notCrawl

NextCrawl ==
    Phase1Skip \/ Phase1Process \/ Phase1Exit \/ Phase2Fetch \/ Phase3Step

-----------------------------------------------------------------------------
(* get_strongest_relationship as a state machine over its inputs *)

MaxLabels == 3

\* The labels of the table, and one the table does not know.
RawLabels == DOMAIN RELATIONSHIP_MAP \cup {"sworn_to"}

InitStrongest ==
    /\ rel_types \in SeqsUpTo(RawLabels, MaxLabels)
    /\ strongest_rel = ""
    /\ CrawlIdle
    /\ DetectIdle
    /\ ResolveIdle
    /\ OtherIdle

CallStrongest ==
    /\ strongest_rel = ""
    /\ strongest_rel' = get_strongest_relationship(rel_types)
    /\ UNCHANGED <<rel_types, crawlVars, detectVars, resolveVars, otherVars>>

NextStrongest == CallStrongest

-----------------------------------------------------------------------------
(* detect_page_type as a state machine over its inputs *)

InitDetect ==
    /\ det_title \in DetectTitles
    /\ det_soup \in Soups
    /\ det_llm \in TypeAnswers
    /\ det_result = NotCalled
    /\ StrongestIdle
    /\ CrawlIdle
    /\ ResolveIdle
    /\ OtherIdle

CallDetect ==
    /\ det_result = NotCalled
    /\ det_result' = detect_page_type(det_soup, det_title, det_llm)
    /\ UNCHANGED <<det_title, det_soup, det_llm, strongestVars, crawlVars,
                   resolveVars, otherVars>>

NextDetect == CallDetect

-----------------------------------------------------------------------------
(* fetch_wiki_image as a state machine.  call holds the locals of the call *)
(* under way and its position: "override" before the manual-override       *)
(* validation, "search" at the head of "for query in search_queries",      *)
(* "candidates" inside "for result in search_results[:5]", "returned"      *)
(* after the return.  io counts the page requests, search requests and     *)
(* oracle requests of the call; last_val records its latest validation     *)
(* that was not answered from the cache; first_ret records what the first  *)
(* call for each label returned.                                           *)

RecordFirst(node_label, outcome) ==
    IF node_label \in DOMAIN first_ret THEN first_ret
    ELSE Put(first_ret, node_label, outcome)

Validated(v, page_title) ==
    IF v.ran
    THEN [ran |-> TRUE, page_title |-> page_title,
          node_type |-> call.node_type,
          infobox_campaigns |-> v.infobox_campaigns,
          all_campaigns |-> v.all_campaigns,
          detected |-> v.detected, oracle |-> v.oracle, result |-> v.result]
    ELSE last_val

\* "if node_label in self.image_cache: return self.image_cache[node_label]"
CallCached ==
    /\ call.pc \in {"idle", "returned"} /\ pending # <<>>
    /\ LET node == Head(pending) IN
         /\ node.label \in DOMAIN image_cache
         /\ call' = [IdleCall EXCEPT !.pc = "returned",
                                     !.node_label = node.label,
                                     !.node_type = node.type,
                                     !.again = node.label \in DOMAIN first_ret]
         /\ ret' = image_cache[node.label]
         /\ first_ret' = RecordFirst(node.label, image_cache[node.label])
    /\ pending' = Tail(pending)
    /\ io' = NoIO
    /\ last_val' = NoValidation
    /\ UNCHANGED <<image_cache, validation_cache>>
    /\ UNCHANGED <<strongestVars, crawlVars, detectVars, otherVars>>

\* A call for a label that is not cached: lines 839-857.
CallFresh ==
    /\ call.pc \in {"idle", "returned"} /\ pending # <<>>
    /\ LET node == Head(pending) IN
         /\ node.label \notin DOMAIN image_cache
         /\ call' = [IdleCall EXCEPT
                        !.pc = IF node.label \in DOMAIN manual_overrides
                               THEN "override" ELSE "search",
                        !.node_label = node.label,
                        !.node_type = node.type,
                        !.search_queries = SearchQueries(node.label),
                        !.qi = 1,
                        !.again = node.label \in DOMAIN first_ret]
    /\ pending' = Tail(pending)
    /\ io' = NoIO
    /\ last_val' = NoValidation
    /\ UNCHANGED <<image_cache, validation_cache, ret, first_ret>>
    /\ UNCHANGED <<strongestVars, crawlVars, detectVars, otherVars>>

\* The manual-override branch once the override target is validated (v).
OverrideValidated(override_title, v) ==
    /\ validation_cache' = v.cache
    /\ io' = [io EXCEPT !.fetch = @ + v.fetch, !.oracle = @ + v.oracle]
    /\ last_val' = Validated(v, override_title)
    /\ IF override_accepted(v.result.confidence)
       THEN /\ call' = [call EXCEPT
                           !.pc = "returned",
                           !.best_result = v.result,
                           !.best_confidence = v.result.confidence,
                           !.override_confidence = v.result.confidence]
            /\ image_cache' =
                   CacheOutcome(image_cache, call.node_label, v.result)
            /\ ret' = v.result
            /\ first_ret' = RecordFirst(call.node_label, v.result)
       ELSE /\ call' = [call EXCEPT
                           !.pc = "search",
                           !.override_confidence = v.result.confidence]
            /\ UNCHANGED <<image_cache, ret, first_ret>>

\* "Check manual overrides first": lines 859-875.
Override ==
    /\ call.pc = "override"
    /\ \E ans \in Answers :
         OverrideValidated(
             manual_overrides[call.node_label],
             fetch_and_validate_page(
                 validation_cache, manual_overrides[call.node_label],
                 call.node_label, call.node_type, ans))
    /\ UNCHANGED pending
    /\ UNCHANGED <<strongestVars, crawlVars, detectVars, otherVars>>

\* One search request of "for query in search_queries"; a failed request
\* is caught and the loop goes on with the next query.
SearchRequest ==
    /\ call.pc = "search" /\ call.qi <= Len(call.search_queries)
    /\ \E answer \in SearchAnswersFor(call.search_queries[call.qi]) :
         IF answer.ok
         THEN call' = [call EXCEPT
                          !.pc = "candidates",
                          !.search_results =
                              SubSeq(answer.results, 1,
                                     Min(5, Len(answer.results))),
                          !.ri = 1]
         ELSE call' = [call EXCEPT !.qi = @ + 1]
    /\ io' = [io EXCEPT !.search = @ + 1]
    /\ UNCHANGED <<image_cache, validation_cache, ret, pending, first_ret,
                   last_val>>
    /\ UNCHANGED <<strongestVars, crawlVars, detectVars, otherVars>>

\* A candidate loop without its "break".
high_confidence_never(confidence) == FALSE

\* "if confidence > 0.85: ... break"
high_confidence(confidence) == confidence > 850000

\* The body of the candidate loop once the candidate is validated (v);
\* call.validated records the confidences of the candidates validated so
\* far in the call.
CandidateValidated(title, v, better) ==
    /\ validation_cache' = v.cache
    /\ io' = [io EXCEPT !.fetch = @ + v.fetch, !.oracle = @ + v.oracle]
    /\ last_val' = Validated(v, title)
    /\ call' = [call EXCEPT
                   !.best_confidence =
                       IF better THEN v.result.confidence ELSE @,
                   !.best_result = IF better THEN v.result ELSE @,
                   !.ri = IF better /\ high_confidence(v.result.confidence)
                          THEN Len(call.search_results) + 1
                          ELSE @ + 1,
                   !.validated = Append(@, v.result.confidence)]

\* A comparison that keeps the latest candidate instead of the best.
IsBetter_latest(v, best_confidence) == v.result.confidence > 0

\* "if confidence > best_confidence"
IsBetter(v, best_confidence) == v.result.confidence > best_confidence

\* One iteration of "for result in search_results[:5]".
Candidate ==
    /\ call.pc = "candidates" /\ call.ri <= Len(call.search_results)
    /\ IF ~score_search_result(call.search_queries[call.qi],
                               call.search_results[call.ri]).should_validate
       THEN /\ call' = [call EXCEPT !.ri = @ + 1]
            /\ UNCHANGED <<validation_cache, io, last_val>>
       ELSE \E ans \in Answers :
              CandidateValidated(
                  call.search_results[call.ri].title,
                  fetch_and_validate_page(
                      validation_cache, call.search_results[call.ri].title,
                      call.node_label, call.node_type, ans),
                  IsBetter(fetch_and_validate_page(
                               validation_cache,
                               call.search_results[call.ri].title,
                               call.node_label, call.node_type, ans),
                           call.best_confidence))
    /\ UNCHANGED <<image_cache, ret, pending, first_ret>>
    /\ UNCHANGED <<strongestVars, crawlVars, detectVars, otherVars>>

\* After the candidates of a query: "if best_confidence > 0.7: break".
EndOfResults ==
    /\ call.pc = "candidates" /\ call.ri > Len(call.search_results)
    /\ call' = [call EXCEPT
                   !.pc = "search",
                   !.qi = IF call.best_confidence > 700000
                          THEN Len(call.search_queries) + 1
                          ELSE @ + 1,
                   !.search_results = <<>>,
                   !.ri = 0]
    /\ UNCHANGED <<image_cache, validation_cache, io, ret, pending, first_ret,
                   last_val>>
    /\ UNCHANGED <<strongestVars, crawlVars, detectVars, otherVars>>

\* After the queries: lines 931-941.
Finish ==
    /\ call.pc = "search" /\ call.qi > Len(call.search_queries)
    /\ LET outcome == FinalOutcome(call.best_result, call.best_confidence)
       IN  /\ image_cache' = CacheOutcome(image_cache, call.node_label, outcome)
           /\ ret' = outcome
           /\ first_ret' = RecordFirst(call.node_label, outcome)
    /\ call' = [call EXCEPT !.pc = "returned"]
    /\ UNCHANGED <<validation_cache, io, pending, last_val>>
    /\ UNCHANGED <<strongestVars, crawlVars, detectVars, otherVars>>

\* The visualizer after __init__: both caches empty, no call made.
NoCall ==
    /\ image_cache = <<>>
    /\ validation_cache = <<>>
    /\ call = IdleCall
    /\ io = NoIO
    /\ ret = NoneResult
    /\ first_ret = <<>>
    /\ last_val = NoValidation

\* enhance_graph is handed one of the graphs.
InitResolve ==
    /\ pending \in Graphs
    /\ NoCall
    /\ DetectIdle
    /\ StrongestIdle
    /\ CrawlIdle
    /\ OtherIdle

NextResolve ==
    CallCached \/ CallFresh \/ Override \/ SearchRequest \/ Candidate
        \/ EndOfResults \/ Finish

-----------------------------------------------------------------------------
(* build_graph_for_episode as a state machine *)

InitEpisode ==
    /\ ep_pc = "start"
    /\ ep_soup \in EpisodeSoups
    /\ ep_llm \in SummaryAnswers
    /\ ep_data = NoData
    /\ ep_todo = <<>>
    /\ ep_entities = <<>>
    /\ ep_edges = {}
    /\ StrongestIdle
    /\ CrawlIdle
    /\ DetectIdle
    /\ ResolveIdle
    /\ DocumentIdle
    /\ LaterIdle

\* "soup, canonical_name = self.fetch_page(episode_page_title)" and
\* "if not soup: return"
EpisodeFetch ==
    /\ ep_pc = "start"
    /\ \E ok \in BOOLEAN : ep_pc' = IF ok THEN "fetched" ELSE "aborted"
    /\ UNCHANGED <<ep_soup, ep_llm, ep_data, ep_todo, ep_entities, ep_edges>>
    /\ UNCHANGED notEpisode

\* The extraction, its unpacking, "if not episode_data: return" and the
\* episode node.
EpisodeExtract ==
    /\ ep_pc = "fetched"
    /\ LET u == Unpack(extract_episode_data_with_llm(ep_soup, ep_llm))
       IN  IF u.raised
           THEN /\ ep_pc' = "raised"
                /\ UNCHANGED <<ep_data, ep_todo, ep_entities>>
           ELSE IF u.falsy
           THEN /\ ep_pc' = "aborted"
                /\ UNCHANGED <<ep_data, ep_todo, ep_entities>>
           ELSE /\ ep_pc' = "characters"
                /\ ep_data' = u.episode_data
                /\ ep_todo' = u.episode_data.characters_present
                /\ ep_entities' = Put(ep_entities, EpisodeName, "Episode")
    /\ UNCHANGED <<ep_soup, ep_llm, ep_edges>>
    /\ UNCHANGED notEpisode

\* One iteration of "for char_name_from_llm in characters_present".
EpisodeCharacter ==
    /\ ep_pc = "characters" /\ ep_todo # <<>>
    /\ \E out \in CharacterOutcomes :
         ep_entities' =
             process_character_node(
                 ep_entities, ResolveName(ep_soup, Head(ep_todo)), out)
    /\ ep_todo' = Tail(ep_todo)
    /\ UNCHANGED <<ep_pc, ep_soup, ep_llm, ep_data, ep_edges>>
    /\ UNCHANGED notEpisode

\* The rest of phase 1 and phase 2.  event['event'] and event['summary']
\* of an entry that lacks one of them raise KeyError.
EpisodeConnect ==
    /\ ep_pc = "characters" /\ ep_todo = <<>>
    /\ LET locations ==
               AddSimpleNodes(ep_entities, ep_data.locations_visited,
                              "Location")
           events ==
               AddSimpleNodes(locations,
                              EventIds(Len(ep_data.key_events)), "Event")
           plots ==
               AddSimpleNodes(events,
                              PlotIds(ep_data.plot_points_revealed),
                              "Plot Point")
       IN  IF \E i \in DOMAIN ep_data.key_events :
                  ~ep_data.key_events[i].complete
           THEN /\ ep_pc' = "raised"
                /\ ep_entities' = locations
                /\ UNCHANGED ep_edges
           ELSE /\ ep_pc' = "done"
                /\ ep_entities' = plots
                /\ ep_edges' =
                       ConnectEdges(plots, ep_soup, ep_data, EpisodeName)
    /\ UNCHANGED <<ep_soup, ep_llm, ep_data, ep_todo>>
    /\ UNCHANGED notEpisode

NextEpisode ==
    EpisodeFetch \/ EpisodeExtract \/ EpisodeCharacter \/ EpisodeConnect

-----------------------------------------------------------------------------
(* run of the visualizer and json_to_gml, over one document *)

InitDocument ==
    /\ document \in Documents
    /\ graph = NoGraph
    /\ run = NotRun
    /\ gml = NoGml
    /\ StrongestIdle
    /\ CrawlIdle
    /\ DetectIdle
    /\ ResolveIdle
    /\ EpisodeIdle
    /\ LaterIdle

\* run(): "if not self.load_json(): return False", then enhance_graph,
\* create_visualization and print_statistics.  reached records which of
\* the later steps were entered.
Run ==
    /\ ~run.called
    /\ LET loaded == load_json(document)
       IN  /\ graph' = loaded
           /\ run' = [called |-> TRUE, ret |-> loaded.ok,
                      reached |-> IF loaded.ok
                                  THEN {"enhance_graph",
                                        "create_visualization"}
                                  ELSE {}]
    /\ UNCHANGED <<document, gml>>
    /\ UNCHANGED notDocument

\* json_to_gml on the document.
Convert ==
    /\ ~gml.written
    /\ gml' = json_to_gml(document)
    /\ UNCHANGED <<document, graph, run>>
    /\ UNCHANGED notDocument

NextDocument == Run \/ Convert

-----------------------------------------------------------------------------
(* fetch_and_validate_page called for one candidate page on behalf of       *)
(* several node labels of one type, in a world that answers every request   *)
(* for the page the same way (order.ans): order.labels are the labels in    *)
(* the order of the calls, order.cache is validation_cache, order.results    *)
(* the results of the calls made so far.                                    *)

OrderCandidate == <<"julien", "davinos">>

OrderType == "character"

\* The labels of a run: two character nodes of the graph, in either order.
OrderLabels ==
    {<<<<"julien", "davinos">>, <<"sir", "julien", "davinos">>>>,
     <<<<"sir", "julien", "davinos">>, <<"julien", "davinos">>>>,
     <<<<"julien", "davinos">>, <<"julien", "davinos">>>>}

InitOrder ==
    /\ order \in [labels : OrderLabels, ans : Answers, cache : {<<>>},
                  results : {<<>>}]
    /\ StrongestIdle
    /\ CrawlIdle
    /\ DetectIdle
    /\ ResolveIdle
    /\ EpisodeIdle
    /\ DocumentIdle
    /\ ClassifyIdle
    /\ HeurIdle

\* The result of the call and the cache it leaves.
OrderValidated(v) ==
    order' = [order EXCEPT !.cache = v.cache,
                           !.results = Append(@, v.result)]

\* The next call: fetch_and_validate_page(candidate, label, type).
ValidateForLabel ==
    /\ Len(order.results) < Len(order.labels)
    /\ OrderValidated(
           fetch_and_validate_page(
               order.cache, OrderCandidate,
               order.labels[Len(order.results) + 1], OrderType, order.ans))
    /\ UNCHANGED <<notLater, classify, heur>>

NextOrder == ValidateForLabel

(* determine_entity_type of the three builders, on the text of the page's *)
(* categories. Texts are sequences of characters, so that "x in text" is  *)
(* the substring test of the code.                                        *)

Alphabet ==
    <<"a", "b", "c", "d", "e", "f", "g", "h", "i", "j", "k", "l", "m", "n",
      "o", "p", "q", "r", "s", "t", "u", "v", "w", "x", "y", "z">>

Capitals ==
    <<"A", "B", "C", "D", "E", "F", "G", "H", "I", "J", "K", "L", "M", "N",
      "O", "P", "Q", "R", "S", "T", "U", "V", "W", "X", "Y", "Z">>

\* The small letter of each capital and the capital of each small letter.
LowerOf ==
    [c \in Range(Capitals) |->
        Alphabet[CHOOSE k \in DOMAIN Capitals : Capitals[k] = c]]

UpperOf ==
    [c \in Range(Alphabet) |->
        Capitals[CHOOSE k \in DOMAIN Alphabet : Alphabet[k] = c]]

Letters == Range(Alphabet) \cup Range(Capitals)

\* str.lower()
lower(text) ==
    [i \in DOMAIN text |->
        IF text[i] \in DOMAIN LowerOf THEN LowerOf[text[i]] ELSE text[i]]

\* "needle in text" on strings
Within(needle, text) ==
    \E i \in 0..(Len(text) - Len(needle)) :
        SubSeq(text, i + 1, i + Len(needle)) = needle

\* ' '.join(categories)
RECURSIVE join(_)
join(categories) ==
    IF categories = <<>> THEN <<>>
    ELSE IF Len(categories) = 1 THEN categories[1]
    ELSE categories[1] \o <<" ">> \o join(Tail(categories))

\* The words the function looks for.
kw_player_character ==
    <<"p", "l", "a", "y", "e", "r", " ", "c", "h", "a", "r", "a", "c", "t",
      "e", "r">>

kw_pc == <<"p", "c">>

kw_non_player_character ==
    <<"n", "o", "n", "-", "p", "l", "a", "y", "e", "r", " ", "c", "h", "a",
      "r", "a", "c", "t", "e", "r">>

kw_npc == <<"n", "p", "c">>

kw_location == <<"l", "o", "c", "a", "t", "i", "o", "n">>

kw_city == <<"c", "i", "t", "y">>

kw_region == <<"r", "e", "g", "i", "o", "n">>

kw_organization ==
    <<"o", "r", "g", "a", "n", "i", "z", "a", "t", "i", "o", "n">>

kw_faction == <<"f", "a", "c", "t", "i", "o", "n">>

kw_house == <<"h", "o", "u", "s", "e">>

kw_group == <<"g", "r", "o", "u", "p">>

kw_cast == <<"c", "a", "s", "t">>

kw_crew == <<"c", "r", "e", "w">>

kw_episode == <<"e", "p", "i", "s", "o", "d", "e">>

kw_event == <<"e", "v", "e", "n", "t">>

kw_town == <<"t", "o", "w", "n">>

kw_council == <<"c", "o", "u", "n", "c", "i", "l">>

kw_guard == <<"g", "u", "a", "r", "d">>

kw_creed == <<"c", "r", "e", "e", "d">>

kw_rebellion == <<"r", "e", "b", "e", "l", "l", "i", "o", "n">>

\* The seed roster as page titles (scaled down as main_characters is).
roster == {<<"T", "h", "i", "m", "b", "l", "e">>, 
           <<"A", "z", "u", "n", "e", "_", "N", "a", "y", "a", "r">>}

\* The page titles of the modelled calls: "Thimble", "Thim", "House_Royce".
ClassifyTitles ==
    {<<"T", "h", "i", "m", "b", "l", "e">>,
     <<"T", "h", "i", "m">>,
     <<"H", "o", "u", "s", "e", "_", "R", "o", "y", "c", "e">>}

\* The category links a page may carry (extract_categories keeps their
\* text): "NPCs", "Non-player characters", "Player characters",
\* "Locations", "Factions", "Cast", "Episodes", "Events".
CategoryPool ==
    {<<"N", "P", "C", "s">>,
     <<"N", "o", "n", "-", "p", "l", "a", "y", "e", "r", " ", "c", "h", "a",
       "r", "a", "c", "t", "e", "r", "s">>,
     <<"P", "l", "a", "y", "e", "r", " ", "c", "h", "a", "r", "a", "c", "t",
       "e", "r", "s">>,
     <<"L", "o", "c", "a", "t", "i", "o", "n", "s">>,
     <<"F", "a", "c", "t", "i", "o", "n", "s">>,
     <<"C", "a", "s", "t">>,
     <<"E", "p", "i", "s", "o", "d", "e", "s">>,
     <<"E", "v", "e", "n", "t", "s">>}

\* The longest list of categories of a modelled page.
MaxCategories == 2

CategoryLists ==
    UNION {[1..n -> CategoryPool] : n \in 0..MaxCategories}

\* Infobox data as a list of <<key, value>>: empty, a race, an actor, and
\* a Type of "City" or of "Faction".
DataPool ==
    {<<>>,
     <<<<"Race", <<"E", "l", "f">>>>>>,
     <<<<"Actor", <<"L", "a", "u", "r", "a">>>>>>,
     <<<<"Type", <<"C", "i", "t", "y">>>>>>,
     <<<<"Type", <<"F", "a", "c", "t", "i", "o", "n">>>>>>}

\* "key in data" and data[key]
HasKey(data, key) == \E i \in DOMAIN data : data[i][1] = key

Value(data, key) == data[CHOOSE i \in DOMAIN data : data[i][1] = key][2]

\* The if/elif chain on cat_text that the three functions share, up to the
\* cast/crew branch; "" when no branch is taken.
category_type(cat_text) ==
    IF Within(kw_player_character, cat_text) \/ Within(kw_pc, cat_text)
    THEN "Player Character"
    ELSE IF Within(kw_non_player_character, cat_text)
            \/ Within(kw_npc, cat_text)
    THEN "NPC"
    ELSE IF Within(kw_location, cat_text) \/ Within(kw_city, cat_text)
            \/ Within(kw_region, cat_text)
    THEN "Location"
    ELSE IF Within(kw_organization, cat_text)
            \/ Within(kw_faction, cat_text) \/ Within(kw_house, cat_text)
            \/ Within(kw_group, cat_text)
    THEN "Organization"
    ELSE IF Within(kw_cast, cat_text) \/ Within(kw_crew, cat_text)
    THEN "Cast Member"
    ELSE ""

\* The two further branches of CR_character_graph.py and char_graph.py.
category_type_long(cat_text) ==
    IF category_type(cat_text) # "" THEN category_type(cat_text)
    ELSE IF Within(kw_episode, cat_text) THEN "Episode"
    ELSE IF Within(kw_event, cat_text) THEN "Event"
    ELSE ""

\* "if 'Type' in data": "" when neither branch is taken.
type_field(data) ==
    IF ~HasKey(data, "Type") THEN ""
    ELSE IF Within(kw_city, lower(Value(data, "Type")))
            \/ Within(kw_town, lower(Value(data, "Type")))
            \/ Within(kw_region, lower(Value(data, "Type")))
    THEN "Location"
    ELSE IF Within(kw_organization, lower(Value(data, "Type")))
            \/ Within(kw_faction, lower(Value(data, "Type")))
    THEN "Organization"
    ELSE ""

\* any(word in page_title.lower() for word in [...])
title_names_group(page_title) ==
    \E word \in {kw_house, kw_council, kw_guard, kw_creed, kw_rebellion} :
        Within(word, lower(page_title))

\* CR_character_graph.py
determine_entity_type_CR(page_title, data, categories) ==
    IF page_title \in roster THEN "Main Character"
    ELSE IF category_type_long(lower(join(categories))) # ""
    THEN category_type_long(lower(join(categories)))
    ELSE IF type_field(data) # "" THEN type_field(data)
    ELSE IF title_names_group(page_title) THEN "Organization"
    ELSE IF \E key \in {"Race", "Class", "Actor", "Portrayed by",
                        "Pronouns"} : HasKey(data, key)
    THEN "NPC"
    ELSE "Unknown"

\* char_graph.py
determine_entity_type_char(page_title, data, categories) ==
    IF page_title \in roster THEN "Main Character"
    ELSE IF category_type_long(lower(join(categories))) # ""
    THEN category_type_long(lower(join(categories)))
    ELSE IF HasKey(data, "Actor") \/ HasKey(data, "Portrayed by")
    THEN "Character"
    ELSE IF type_field(data) # "" THEN type_field(data)
    ELSE IF title_names_group(page_title) THEN "Organization"
    ELSE "Unknown"

\* episode_graph.py
determine_entity_type_episode(page_title, data, categories) ==
    IF page_title \in roster THEN "Player Character"
    ELSE IF category_type(lower(join(categories))) # ""
    THEN category_type(lower(join(categories)))
    ELSE IF \E key \in {"Race", "Class", "Actor", "Portrayed by"} :
                HasKey(data, key)
    THEN IF HasKey(data, "Actor") \/ HasKey(data, "Portrayed by")
         THEN "Player Character"
         ELSE "NPC"
    ELSE "Unknown"

Builders == {"CR_character_graph", "char_graph", "episode_graph"}

InitClassify ==
    /\ classify \in [builder : Builders, page_title : ClassifyTitles,
                     data : DataPool, categories : CategoryLists,
                     result : {""}]
    /\ StrongestIdle
    /\ CrawlIdle
    /\ DetectIdle
    /\ ResolveIdle
    /\ EpisodeIdle
    /\ DocumentIdle
    /\ OrderIdle
    /\ HeurIdle

\* One call of determine_entity_type.
Classify ==
    /\ classify.result = ""
    /\ classify' =
           [classify EXCEPT !.result =
               CASE classify.builder = "CR_character_graph" ->
                        determine_entity_type_CR(
                            classify.page_title, classify.data,
                            classify.categories)
                 [] classify.builder = "char_graph" ->
                        determine_entity_type_char(
                            classify.page_title, classify.data,
                            classify.categories)
                 [] OTHER ->
                        determine_entity_type_episode(
                            classify.page_title, classify.data,
                            classify.categories)]
    /\ UNCHANGED <<notLater, order, heur>>

NextClassify == Classify

(* char_graph.py: add_relationship, called for the mentions of one ordered *)
(* pair of pages. Relationship types and edge titles are sequences of     *)
(* characters.                                                            *)

t_member_of == <<"m", "e", "m", "b", "e", "r", "_", "o", "f">>

t_aspirant_of == <<"a", "s", "p", "i", "r", "a", "n", "t", "_", "o", "f">>

t_serves_in == <<"s", "e", "r", "v", "e", "s", "_", "i", "n">>

t_founded == <<"f", "o", "u", "n", "d", "e", "d">>

t_family == <<"f", "a", "m", "i", "l", "y">>

t_allied_with == <<"a", "l", "l", "i", "e", "d", "_", "w", "i", "t", "h">>

t_served_with == <<"s", "e", "r", "v", "e", "d", "_", "w", "i", "t", "h">>

t_opposed_to == <<"o", "p", "p", "o", "s", "e", "d", "_", "t", "o">>

t_employed_by == <<"e", "m", "p", "l", "o", "y", "e", "d", "_", "b", "y">>

t_associated_with ==
    <<"a", "s", "s", "o", "c", "i", "a", "t", "e", "d", "_", "w", "i", "t",
      "h">>

\* The types extract_relationships, extract_affiliations and
\* infer_relationship_type produce.
HeurTypes ==
    {t_member_of, t_aspirant_of, t_serves_in, t_founded, t_family,
     t_allied_with, t_served_with, t_opposed_to, t_employed_by,
     t_associated_with}

\* The priority table of add_relationship.
priority_table ==
    [t \in HeurTypes |->
        CASE t \in {t_member_of, t_aspirant_of, t_serves_in, t_founded} -> 3
          [] t \in {t_family, t_allied_with, t_served_with, t_opposed_to}
                 -> 2
          [] t = t_employed_by -> 1
          [] OTHER -> 0]

\* priority.get(rel_type, 0)
priority(rel_type) ==
    IF rel_type \in DOMAIN priority_table THEN priority_table[rel_type]
    ELSE 0

\* str.replace(old, new) for single characters
replace(text, old, new) ==
    [i \in DOMAIN text |-> IF text[i] = old THEN new ELSE text[i]]

\* str.upper() of one character
upper(c) == IF c \in DOMAIN UpperOf THEN UpperOf[c] ELSE c

\* str.title(): a letter that follows no letter is capitalised, every
\* other letter is lowered.
title(text) ==
    [i \in DOMAIN text |->
        IF i = 1 \/ text[i - 1] \notin Letters THEN upper(text[i])
        ELSE lower(<<text[i]>>)[1]]

\* edge_label = rel_type.replace('_', ' ').title(), computed once as a
\* string of its own.
edge_label(rel_type) == title(replace(rel_type, "_", " ")) \o <<>>

\* existing_edge.get('title', '').lower().replace(' ', '_')
existing_type(edge) == replace(lower(edge.title), " ", "_")

\* The pair has no edge.
NoEdge == [title |-> <<>>, label |-> <<>>, color |-> "", width |-> 0]

edge_color(rel_type) ==
    CASE rel_type \in {t_member_of, t_aspirant_of, t_serves_in} -> "#F39C12"
      [] rel_type = t_family -> "#E74C3C"
      [] rel_type \in {t_allied_with, t_served_with} -> "#2ECC71"
      [] rel_type = t_opposed_to -> "#C0392B"
      [] OTHER -> "#999999"

edge_width(rel_type) ==
    CASE rel_type \in {t_member_of, t_aspirant_of, t_serves_in} -> 3
      [] rel_type \in {t_family, t_allied_with, t_served_with,
                       t_opposed_to} -> 2
      [] OTHER -> 1

\* A plausible slip: a type of equal priority replaces the stored one.
replaces_or_equal(rel_type, stored) == priority(rel_type) >= priority(stored)

\* "if priority.get(rel_type, 0) > priority.get(existing_type, 0)"
replaces(rel_type, stored) == priority(rel_type) > priority(stored)

\* add_relationship on h = [entities, edges, relationships]; edges is the
\* DiGraph's edge dict <<source, target>> -> attributes.
add_relationship_heuristic(h, source_page, target_page, rel_type) ==
    IF target_page \notin h.entities THEN h
    ELSE IF /\ <<source_page, target_page>> \in DOMAIN h.edges
            /\ ~replaces(rel_type,
                         existing_type(h.edges[<<source_page, target_page>>]))
    THEN h
    ELSE [h EXCEPT
             !.edges =
                 Put(@, <<source_page, target_page>>,
                     [title |-> edge_label(rel_type),
                      label |-> IF rel_type # t_associated_with
                                THEN edge_label(rel_type) ELSE <<>>,
                      color |-> edge_color(rel_type),
                      width |-> edge_width(rel_type)]),
             !.relationships =
                 IF \E i \in DOMAIN @ :
                        /\ @[i].source = source_page
                        /\ @[i].target = target_page
                        /\ @[i].type = rel_type
                 THEN @
                 ELSE Append(@, [source |-> source_page,
                                 target |-> target_page,
                                 type |-> rel_type])]

\* The longest list of mentions of the pair.
MaxMentions == 3

\* The source page of the pair and self.entities of the run.
HeurSource == "Thimble"

HeurEntities == {"Thimble", "House_Royce"}

\* The builder before the first mention of the pair.
HeurStart == [entities |-> HeurEntities, edges |-> <<>>,
              relationships |-> <<>>]

InitHeur ==
    /\ heur \in [target : {"House_Royce", "Royce"},
                 types : UNION {[1..n -> HeurTypes] : n \in 0..MaxMentions},
                 done : {0},
                 h : {HeurStart}]
    /\ StrongestIdle
    /\ CrawlIdle
    /\ DetectIdle
    /\ ResolveIdle
    /\ EpisodeIdle
    /\ DocumentIdle
    /\ OrderIdle
    /\ ClassifyIdle

\* The next mention: add_relationship(source, target, rel['type']).
AddMention ==
    /\ heur.done < Len(heur.types)
    /\ heur' = [heur EXCEPT
                   !.done = @ + 1,
                   !.h = add_relationship_heuristic(
                             @, HeurSource, heur.target,
                             heur.types[heur.done + 1])]
    /\ UNCHANGED <<notLater, order, classify>>

NextHeur == AddMention

-----------------------------------------------------------------------------
(* Specifications *)

SpecCrawl == InitCrawl /\ [][NextCrawl]_vars

\* The steps of the phase-1 loop, its exit included.
Phase1Loop == Phase1Skip \/ Phase1Process \/ Phase1Exit

\* build_graph is sequential code: as long as every request returns, the
\* next step of the loop is taken.
SpecCrawlLive == InitCrawl /\ [][NextCrawl]_vars /\ WF_vars(Phase1Loop)

SpecStrongest == InitStrongest /\ [][NextStrongest]_vars

SpecDetect == InitDetect /\ [][NextDetect]_vars

SpecResolve == InitResolve /\ [][NextResolve]_vars

SpecEpisode == InitEpisode /\ [][NextEpisode]_vars

SpecDocument == InitDocument /\ [][NextDocument]_vars

SpecOrder == InitOrder /\ [][NextOrder]_vars

SpecClassify == InitClassify /\ [][NextClassify]_vars

SpecHeur == InitHeur /\ [][NextHeur]_vars

-----------------------------------------------------------------------------
(* Claims about build_graph (SpecCrawl) *)

Pair(r) == <<r.source, r.target>>

\* The raw relationships of the buffer with their source key.
Buffered == Range(Flatten(all_relationships, 1))

\* The canonical id of a buffered raw relationship's target, as phase 3
\* resolves it.
TargetId(m) == get_canonical_name(alias_map, normalize_page_title(m.rel.target))

\* C1 (edge uniqueness): whatever was buffered, the exported relationships
\* list never holds two records for the same ordered pair of canonical ids,
\* and the graph's one edge for a record's pair carries that record's kind.
C1_EdgeUniqueness ==
    /\ \A i, j \in DOMAIN relationships :
          Pair(relationships[i]) = Pair(relationships[j]) => i = j
    /\ \A i \in DOMAIN relationships :
          /\ Pair(relationships[i]) \in DOMAIN graph_edges
          /\ graph_edges[Pair(relationships[i])] = StyleLabel(relationships[i].type)

\* C1's case: the pair (x, House_Royce) was mentioned under two raw titles
\* ("Royce" and "House_Royce") and came out as one record joining the labels
\* of both mentions.
C1_Witness ==
    /\ phase = "done"
    /\ \E i \in DOMAIN relationships :
          /\ relationships[i].target = "House_Royce"
          /\ relationships[i].original_types = {"member_of", "rival", "close_friend"}
          /\ \E m, n \in Buffered :
                /\ m.source = relationships[i].source
                /\ n.source = relationships[i].source
                /\ m.rel.target = "Royce" /\ n.rel.target = "House_Royce"

\* C3 (dangling-edge exclusion): every exported record joins two keys of the
\* entity store; at the end of build_graph a buffered raw relationship whose
\* target id is no entity has left no record and no edge, and its source is
\* an entity.
C3_NoDanglingEdge ==
    /\ \A i \in DOMAIN relationships :
          /\ relationships[i].source \in DOMAIN entities
          /\ relationships[i].target \in DOMAIN entities
    /\ phase = "done" =>
          \A m \in Buffered :
             /\ m.source \in DOMAIN entities
             /\ TargetId(m) \notin DOMAIN entities =>
                   /\ <<m.source, TargetId(m)>> \notin DOMAIN graph_edges
                   /\ \A i \in DOMAIN relationships :
                         Pair(relationships[i]) # <<m.source, TargetId(m)>>

\* C3's case: the run has ended with a buffered relationship whose target
\* never became an entity, next to one that did and was exported.
C3_Witness ==
    /\ phase = "done"
    /\ \E m \in Buffered : TargetId(m) \notin DOMAIN entities
    /\ relationships # <<>>

\* The buffer with the j-th raw relationship of its i-th entry present twice,
\* the copy at position p of the same entry.
Twice(all_rels, i, j, p) ==
    [all_rels EXCEPT ![i] =
        <<@[1], SubSeq(@[2], 1, p - 1) \o <<@[2][j]>> \o SubSeq(@[2], p, Len(@[2]))>>]

\* What phase 3 makes of a buffer, from the store as it is before phase 3:
\* the set of exported records, their number, and the graph's edges.
Consolidated(all_rels) ==
    LET b == Phase3([Builder EXCEPT !.relationships = <<>>], all_rels)
    IN  [records |-> Range(b.relationships), n |-> Len(b.relationships),
         graph_edges |-> b.graph_edges]

\* C4 (idempotent ingestion): consolidating the buffer with any one raw
\* relationship present twice gives the same records (pairs, kinds, sets of
\* original labels) and the same edges as consolidating the buffer itself.
C4_IdempotentIngestion ==
    phase = "phase2" =>
        \A i \in DOMAIN all_relationships :
           \A j \in DOMAIN all_relationships[i][2] :
              \A p \in 1..(Len(all_relationships[i][2]) + 1) :
                 Consolidated(Twice(all_relationships, i, j, p))
                     = Consolidated(all_relationships)

\* C4's case: phase 3 is about to consolidate a buffer in which a raw
\* relationship between two entities occurs, so that its copy is ingested.
C4_Witness ==
    /\ phase = "phase2" /\ unresolved_targets = {}
    /\ \E m \in Buffered :
          /\ m.source \in DOMAIN entities
          /\ TargetId(m) \in DOMAIN entities
          /\ Len(m.rel.types) > 1
    /\ Consolidated(all_relationships).n > 1

\* C5 (budget exhaustion), as claimed: when the phase-1 loop has stopped on
\* the budget, on a wiki that offered at least limit distinct entities, the
\* processed set holds exactly limit canonical ids.  It is stated for the
\* runs most favourable to the claim, those in which no page request
\* failed.
C5_ExactlyBudgetProcessed ==
    (/\ phase # "phase1"
     /\ count = limit
     /\ ~fetch_failed
     /\ Cardinality(processed \cup
                    {get_canonical_name(alias_map, queue[i]) : i \in DOMAIN queue})
            >= limit)
        => Cardinality(processed) = limit

\* C15: entity lifecycle: a key of the entity store is never removed and
\* its recorded type never changes, whatever process_page,
\* add_metadata_nodes and the second-pass fetches do.
C15_EntityLifecycle ==
    [][\A k \in DOMAIN entities :
           k \in DOMAIN entities' /\ entities'[k].type = entities[k].type]_vars

\* The cast page "Laura_Bailey" entered the store as the actor of a
\* character while its request failed, and was then reached by the crawl
\* and requested again.
C15_Witness ==
    /\ "Laura_Bailey" \in DOMAIN entities
    /\ entities["Laura_Bailey"].type = "Cast Member"
    /\ "Laura_Bailey" \in processed
    /\ "Laura_Bailey" \in DOMAIN answered
    /\ requests["Laura_Bailey"] = 2

\* The item at the head of the queue resolves, by the aliases known, to a
\* canonical id of the processed set.
HeadProcessed ==
    /\ phase = "phase1" /\ queue # <<>> /\ count < limit
    /\ get_canonical_name(alias_map, normalize_page_title(Head(queue)))
           \in processed

\* C16: processed once by canonical identity: process_page creates the
\* entity of a canonical id, and extracts its relationships, at most
\* once, through whatever titles and redirects the id is reached; and a
\* queue item whose canonical id is in the processed set is dropped
\* without a page request and without consuming budget.
C16_ProcessedOnce ==
    [][/\ \A k \in DOMAIN creations' : creations'[k] <= 1
       /\ HeadProcessed =>
              /\ queue' = Tail(queue)
              /\ requests' = requests
              /\ count' = count
              /\ creations' = creations]_vars

\* "Thimble" was processed, and the crawl then requested "Thim", which
\* redirected to it.
C16_Witness ==
    /\ phase = "phase1"
    /\ "Thim" \in DOMAIN answered /\ answered["Thim"] = "Thimble"
    /\ {"Thim", "Thimble"} \subseteq DOMAIN requests
    /\ "Thimble" \in processed
    /\ creations["Thimble"] = 1

\* The step is a pass of the crawl loop in which the request for the
\* queued title failed: nothing is returned, the entity store and the
\* alias table stay as they are, the title is recorded as processed and
\* the loop goes on.
FailedFetchAbsorbed ==
    failures' # failures =>
        /\ entities' = entities
        /\ alias_map' = alias_map
        /\ phase' = "phase1"
        /\ queue' = Tail(queue)
        /\ \A t \in failures' \ failures :
               /\ t \in processed'
               /\ t \in DictKeys(all_relationships')
               /\ DictGet(all_relationships', t, <<>>) = <<>>

Requests(r, t) == Get(r, t, 0)

C18_AliasRecording ==
    /\ DOMAIN alias_map = DOMAIN answered
    /\ \A t \in DOMAIN answered :
           /\ alias_map[t] = answered[t]
           /\ get_canonical_name(alias_map, t) = answered[t]

\* An identity entry, a redirect entry, and a title whose only request
\* failed.
C18_Witness ==
    /\ \E t \in DOMAIN answered : answered[t] = t
    /\ \E t \in DOMAIN answered : answered[t] # t
    /\ \E t \in DOMAIN requests : t \notin DOMAIN alias_map

-----------------------------------------------------------------------------
\* The normalized targets of the buffered relationships whose canonical id,
\* by the aliases am, is not a key of the entity store ents.
BufferedTargetsOutside(buffer, am, ents) ==
    {t \in Titles :
         /\ \E i \in DOMAIN buffer :
                \E j \in DOMAIN buffer[i][2] :
                    normalize_page_title(buffer[i][2][j].target) = t
         /\ get_canonical_name(am, t) \notin DOMAIN ents}

\* The titles add_metadata_nodes gives its edges.
MetadataTitles == {"Race", "Class", "Plays"}

\* C23: phase 2 starts from the buffered targets whose canonical id is not
\* an entity and requests each of them still in that case, one per step;
\* a step of phase 2 changes the alias table at the requested title only
\* and leaves the entity store, the graph's nodes and edges, the processed
\* set and the relationship buffer as they are; phase 3 starts when every
\* such target has been dealt with; until then the graph holds no
\* relationship edge and no relationship record.
C23_SecondPassAliasOnly ==
    [][/\ (phase = "phase1" /\ phase' = "phase2") =>
              unresolved_targets' =
                  BufferedTargetsOutside(all_relationships, alias_map, entities)
       /\ (phase = "phase2" /\ phase' = "phase2") =>
              /\ \E target \in unresolved_targets :
                    /\ unresolved_targets' = unresolved_targets \ {target}
                    /\ Requests(requests', target) =
                           Requests(requests, target)
                           + (IF get_canonical_name(alias_map, target)
                                     \notin DOMAIN entities
                              THEN 1 ELSE 0)
                    /\ \A t \in Titles \ {target} :
                          /\ Requests(requests', t) = Requests(requests, t)
                          /\ get_canonical_name(alias_map', t)
                                 = get_canonical_name(alias_map, t)
              /\ UNCHANGED <<entities, graph_nodes, graph_edges, processed,
                             all_relationships, relationships>>
       /\ (phase = "phase2" /\ phase' = "done") => unresolved_targets = {}
       /\ phase' # "done" =>
              /\ relationships' = <<>>
              /\ \A e \in DOMAIN graph_edges' :
                     graph_edges'[e] \in MetadataTitles]_vars

\* Phase 2 has requested "Royce", a target that was never queued, and has
\* learnt that it redirects to "House_Royce"; nothing but the alias table
\* shows it.
C23_Witness ==
    /\ phase = "phase2"
    /\ "Royce" \in DOMAIN alias_map
    /\ alias_map["Royce"] = "House_Royce"
    /\ "Royce" \notin unresolved_targets
    /\ "House_Royce" \in DOMAIN entities
    /\ relationships = <<>>

\* C24: with every request returning, the phase-1 loop ends, and it ends
\* with the queue empty or the count equal to the budget; the count never
\* exceeds the budget, and the number of processed canonical ids never
\* exceeds the count.
C24_CrawlTermination ==
    /\ <>(phase # "phase1")
    /\ [](count <= limit /\ Cardinality(processed) <= count)
    /\ [][(phase = "phase1" /\ phase' # "phase1") =>
              (queue = <<>> \/ count = limit)]_vars

\* The loop has ended on its budget while the pages still had targets to
\* offer: the queue is not empty.
C24_Witness ==
    /\ phase # "phase1"
    /\ count = limit
    /\ queue # <<>>
    /\ Cardinality(processed) = limit

\* The canonical ids whose page the crawl has turned into an entity, with
\* the relationships extracted from it buffered in the same iteration.
Extracted == {k \in DictKeys(all_relationships) : Get(creations, k, 0) >= 1}

\* C25: the buffer entry of a page whose relationships were extracted and
\* buffered is not replaced or emptied by a later step of the crawl: it
\* stays in all_relationships with the same list of raw relationships.
C25_BufferNeverLost ==
    [][\A k \in Extracted :
           /\ k \in DictKeys(all_relationships')
           /\ DictGet(all_relationships', k, <<>>)
                  = DictGet(all_relationships, k, <<>>)]_vars

(* Claims about get_strongest_relationship (SpecStrongest) *)

\* The order the claim fixes.
ClaimedOrder == <<"Enemy", "Family", "Romantic Partner", "Ally", "Complicated",
                  "Member Of", "Associated With">>

Position(k) == CHOOSE i \in DOMAIN ClaimedOrder : ClaimedOrder[i] = k

\* The kinds the labels of a list map to; a label outside the table maps to
\* Associated With.
MappedKinds(types) ==
    {Get(RELATIONSHIP_MAP, types[i], "Associated With") : i \in DOMAIN types}

\* C2 (precedence determinism): the result is one of the seven kinds; for a
\* non-empty list it is the mapped kind that comes first in the fixed order,
\* for the empty list Associated With; and every reordering of the list
\* gives the same result.
C2_PrecedenceDeterminism ==
    strongest_rel # "" =>
        /\ strongest_rel \in Range(ClaimedOrder)
        /\ MappedKinds(rel_types) # {} =>
              /\ strongest_rel \in MappedKinds(rel_types)
              /\ \A k \in MappedKinds(rel_types) :
                    Position(strongest_rel) <= Position(k)
        /\ MappedKinds(rel_types) = {} => strongest_rel = "Associated With"
        /\ \A f \in Permutations(DOMAIN rel_types) :
              get_strongest_relationship(
                  [i \in DOMAIN rel_types |-> rel_types[f[i]]]) = strongest_rel

\* C2's case: the strongest kind comes from the last label, after a weaker
\* one and a label the table does not know.
C2_Witness ==
    /\ rel_types = <<"close_friend", "sworn_to", "rival">>
    /\ strongest_rel = "Enemy"

-----------------------------------------------------------------------------
(* Claims about fetch_wiki_image and fetch_and_validate_page (SpecResolve) *)

\* The call under way has returned.
Returned == call.pc = "returned"

\* C6: a second call of fetch_wiki_image for a node label returns what the
\* first call for that label returned (the same accepted result or the same
\* None) and makes no page request, no search request and no oracle request.
C6_IdempotentResolution ==
    (Returned /\ call.again) =>
        /\ ret = first_ret[call.node_label]
        /\ io = NoIO

\* A second call has returned None for a label whose first call ran into a
\* failed request.
C6_Witness ==
    /\ Returned /\ call.again
    /\ ret = NoneResult
    /\ \E key \in DOMAIN validation_cache :
           validation_cache[key].verdict = "error"

\* The infobox of the page of the call's latest validation names campaigns,
\* and the target campaign is not among them.
InfoboxNamesOtherCampaigns ==
    /\ last_val.ran
    /\ last_val.infobox_campaigns # {}
    /\ target_campaign \notin last_val.infobox_campaigns

\* C7: a candidate whose infobox names campaigns without the target campaign
\* is rejected with confidence 0 and no oracle request, it is cached as
\* rejected, and it is neither the call's best result nor what the call
\* returns or caches for the label.
C7_HardVeto ==
    InfoboxNamesOtherCampaigns =>
        /\ last_val.result = Rejected(0, "hard_reject")
        /\ last_val.oracle = 0
        /\ validation_cache[cache_key(last_val.page_title, last_val.node_type)]
               = last_val.result
        /\ call.best_result.page_url # PageUrl(last_val.page_title)
        /\ Returned =>
               /\ ret.page_url # PageUrl(last_val.page_title)
               /\ image_cache[call.node_label].page_url
                      # PageUrl(last_val.page_title)

\* The override target of "sir julien davinos" was vetoed, and the call has
\* gone on to the search path.
C7_Witness ==
    /\ InfoboxNamesOtherCampaigns
    /\ call.node_label = <<"sir", "julien", "davinos">>
    /\ last_val.page_title = <<"julien", "davinos">>
    /\ call.override_confidence = 0
    /\ call.pc = "search"

\* C8: a candidate page detected as an episode page, for a node whose type
\* is not episode, is rejected: its validation returns no page URL, and the
\* page is not the call's best result.
C8_EpisodeVeto ==
    (/\ last_val.ran
     /\ last_val.detected = "episode"
     /\ last_val.node_type # "episode")
        => /\ last_val.result.page_url = NoUrl
           /\ call.best_result.page_url # PageUrl(last_val.page_title)

OverrideDiscarded ==
    /\ Returned
    /\ call.node_label = <<"torn", "banner", "(artifact)">>
    /\ call.override_confidence = 0
    /\ io.search >= 1
    /\ ret.page_url = PageUrl(<<"torn", "banner", "(artifact)">>)

-----------------------------------------------------------------------------
\* The next step of the call under way is a call of fetch_and_validate_page:
\* for the override target, or for a search result worth validating.
ValidationDue ==
    \/ call.pc = "override"
    \/ /\ call.pc = "candidates" /\ call.ri <= Len(call.search_results)
       /\ score_search_result(call.search_queries[call.qi],
                              call.search_results[call.ri]).should_validate

\* The cache key of that call.
DueKey ==
    cache_key(IF call.pc = "override"
              THEN manual_overrides[call.node_label]
              ELSE call.search_results[call.ri].title,
              call.node_type)

\* The exits of fetch_and_validate_page.
ExitVerdicts ==
    {"hard_reject", "heuristic_reject", "llm_reject", "low_confidence",
     "accepted", "error"}

\* C19: a call of fetch_and_validate_page for a key that is not cached
\* requests the page once and stores exactly one result, that of one of its
\* exits, under that key; a call for a cached key requests neither a page
\* nor the oracle; no step overwrites or removes an entry of the cache.
C19_ValidationCacheSingleShot ==
    [][/\ \A k \in DOMAIN validation_cache :
              /\ k \in DOMAIN validation_cache'
              /\ validation_cache'[k] = validation_cache[k]
       /\ IF ValidationDue /\ DueKey \notin DOMAIN validation_cache
          THEN /\ DOMAIN validation_cache'
                      = DOMAIN validation_cache \cup {DueKey}
               /\ validation_cache'[DueKey].verdict \in ExitVerdicts
               /\ last_val'.ran
               /\ last_val'.result = validation_cache'[DueKey]
               /\ io'.fetch = io.fetch + 1
          ELSE /\ validation_cache' = validation_cache
               /\ io'.fetch <= io.fetch
               /\ io'.oracle <= io.oracle]_vars

\* The override target of "sir julien davinos" was validated by an earlier
\* call, as a search result for "julien davinos": the override is answered
\* from the cache, without a page or oracle request.
C19_Witness ==
    /\ call.node_label = <<"sir", "julien", "davinos">>
    /\ call.override_confidence # -1
    /\ io = NoIO
    /\ ~last_val.ran
    /\ cache_key(<<"julien", "davinos">>, "character")
           \in DOMAIN validation_cache

\* The latest validation read a page that validate_campaign classifies as
\* wrong-campaign.
WrongCampaignPage ==
    /\ last_val.ran
    /\ validate_campaign(
           [infobox_campaigns |-> last_val.infobox_campaigns,
            all_campaigns |-> last_val.all_campaigns]).is_wrong_campaign

\* C20: a candidate page that validate_campaign classifies as wrong-campaign
\* (it names campaigns, none of them the target campaign) is rejected by
\* fetch_and_validate_page: the validation returns no page, whatever the
\* type confidence and the oracle's match confidence.
C20_WrongCampaignVeto ==
    WrongCampaignPage => last_val.result.page_url = NoUrl

-----------------------------------------------------------------------------
\* The call under way has returned through the search path: it was not
\* answered from image_cache and no manual override was accepted.
SearchPathReturned ==
    /\ Returned
    /\ call.search_queries # <<>>
    /\ call.override_confidence <= 350000

\* The highest of a list of confidences, 0 for the empty list.
BestOf(confidences) ==
    IF confidences = <<>> THEN 0
    ELSE CHOOSE m \in Range(confidences) :
             \A x \in Range(confidences) : x <= m

\* C21: on the search path, with m the highest confidence among the
\* candidates validated during the call, over all query variants: when m is
\* at least 0.4 the call returns and caches a result of confidence m, and
\* when m is below 0.4 it returns None and caches None for the label.
C21_BestOfSelection ==
    SearchPathReturned =>
        /\ BestOf(call.validated) >= 400000 =>
               /\ ret # NoneResult
               /\ ret.confidence = BestOf(call.validated)
               /\ image_cache[call.node_label] = ret
        /\ BestOf(call.validated) < 400000 =>
               /\ ret = NoneResult
               /\ image_cache[call.node_label] = NoneResult

\* The first candidate of the call was the best one: a later candidate was
\* validated with a lower confidence, itself above the threshold.
C21_Witness ==
    /\ SearchPathReturned
    /\ Len(call.validated) >= 2
    /\ call.validated[2] >= 400000
    /\ call.validated[1] > call.validated[2]
    /\ ret.confidence = call.validated[1]

\* C22: within one call, a step that follows the validation of a candidate
\* with confidence above 0.85 validates no candidate and sends no search
\* request; and when the candidates of a query variant are done and one of
\* those validated so far has a confidence above 0.7, the next step sends
\* no search request.
C22_EarlyShortCircuit ==
    [][/\ BestOf(call.validated) > 850000 =>
              /\ Len(call'.validated) <= Len(call.validated)
              /\ io'.search <= io.search
       /\ (call.pc = "search" /\ BestOf(call.validated) > 700000) =>
              io'.search <= io.search]_vars

\* The first of two search results was validated above 0.85, and the call
\* has returned it after one search request and one validation.
C22_Witness ==
    /\ SearchPathReturned
    /\ call.node_label = <<"the", "fall", "of", "davinos">>
    /\ Len(call.validated) = 1
    /\ call.validated[1] > 850000
    /\ io.search = 1
    /\ io.fetch = 1
    /\ ret.page_url = PageUrl(<<"fall", "of", "davinos">>)

\* The other case of C22: the best candidate of the first query variant has
\* a confidence above 0.7 and not above 0.85, every result of the variant
\* was looked at, and the call returned without trying the next variant.
StoppedAfterVariant ==
    /\ SearchPathReturned
    /\ Len(call.search_queries) >= 2
    /\ io.search = 1
    /\ BestOf(call.validated) > 700000
    /\ BestOf(call.validated) <= 850000

\* A result dict that carries the URL of a page the run has validated for
\* the type of the call, with the cached result of that validation.
IdentifiesPage(result, node_type) ==
    /\ result.page_url # NoUrl
    /\ \E k \in DOMAIN validation_cache :
          /\ k[2] = node_type
          /\ result.page_url = PageUrl(k[1])
          /\ result = validation_cache[k]

\* C27: every result other than None that fetch_wiki_image returns or
\* stores in image_cache, through the manual override or through the
\* search, carries the URL of a wiki page that was validated.
C27_AcceptedIdentifiesPage ==
    /\ (Returned /\ ret # NoneResult) => IdentifiesPage(ret, call.node_type)
    /\ \A node \in UNION {Range(g) : g \in Graphs} :
           (node.label \in DOMAIN image_cache
            /\ image_cache[node.label] # NoneResult)
               => IdentifiesPage(image_cache[node.label], node.type)

\* A manual override accepted with a confidence between 0.35 and 0.5, for
\* a page without an infobox image: the result has no image and has the
\* page's URL.
C27_Witness ==
    /\ Returned
    /\ call.override_confidence > 350000
    /\ call.override_confidence < 500000
    /\ ret.image_url = "None"
    /\ ret.page_url = PageUrl(manual_overrides[call.node_label])
    /\ image_cache[call.node_label] = ret

-----------------------------------------------------------------------------
(* Claims about the validation cache across node labels (SpecOrder) *)

\* C26: with the wiki and the oracles answering the same way, the result
\* fetch_and_validate_page gives for a candidate and a node label does not
\* depend on the labels the candidate was validated for earlier: it is the
\* result that validating the candidate for that label produces.
C26_OrderIndependence ==
    \A i \in DOMAIN order.results :
        order.results[i] =
            ValidatePage(OrderCandidate, order.labels[i], OrderType,
                         order.ans).result

-----------------------------------------------------------------------------
(* Claims about detect_page_type (SpecDetect) *)

\* The titles of DetectTitles that match an episode-title pattern.
PatternTitles ==
    {<<"the", "fall", "of", "davinos">>, <<"a", "tale", "of", "davinos">>,
     <<"campaign", "4x01">>}

\* C9: for a title that matches an episode-title pattern, detect_page_type
\* returns (episode, 1.0) whatever the page holds, without an oracle request.
C9_TypeShortCircuit ==
    (det_result # NotCalled /\ det_title \in PatternTitles) =>
        det_result = [type |-> "episode", confidence |-> One, oracle |-> 0,
                      raised |-> FALSE]

\* An episode-pattern title on a page without any text.
C9_Witness ==
    /\ det_title = <<"the", "fall", "of", "davinos">>
    /\ ~det_soup.has_text
    /\ det_result.type = "episode"

-----------------------------------------------------------------------------
(* Claims about build_graph_for_episode (SpecEpisode) *)

\* The extraction of the episode page yielded no data.
NoEpisodeData == extract_episode_data_with_llm(ep_soup, ep_llm).is_none

\* C11: an oracle failure never aborts the run with an exception: when
\* extract_episode_data_with_llm yields no data (no synopsis, timeout,
\* non-200 status, reply without a JSON object or with a malformed one),
\* build_graph_for_episode ends with its "Could not extract data" return
\* and no exception leaves it.
C11_OracleErrorsNeverAbort ==
    (NoEpisodeData /\ ep_pc \notin {"start", "fetched"}) => ep_pc = "aborted"

-----------------------------------------------------------------------------
(* Claims about graph documents (SpecDocument) *)

\* The document has one of the two shapes: both keys nodes and edges, or
\* both keys entities and relationships.
Recognized ==
    \/ {"nodes", "edges"} \subseteq document.keys
    \/ {"entities", "relationships"} \subseteq document.keys

\* C12: malformed input is fatal: for a document of neither shape
\* load_json reports failure, run returns failure without reaching
\* enhance_graph or create_visualization, and no graph is produced.
C12_MalformedInputFatal ==
    (run.called /\ ~Recognized) =>
        /\ ~graph.ok
        /\ ~run.ret
        /\ run.reached = {}
        /\ graph.nodes = <<>> /\ graph.edges = <<>>

\* run was called on a document of neither shape that has nodes and edges
\* to lose.
C12_Witness ==
    /\ run.called /\ ~Recognized
    /\ document.keys = {"entities", "edges"}
    /\ document.nodes # <<>> /\ document.edges # <<>>

\* The ids the nodes of the document give.
GivenIds == {n.id : n \in {m \in Range(document.nodes) : ~Falsy(m.id)}}

\* The strings json_to_gml knows a node of the document by: its id, or
\* node_<position> without one, and its label.
NodeNames ==
    LET nodes == IF "nodes" \in document.keys THEN document.nodes ELSE <<>>
    IN  {IF nodes[i].id = Absent THEN NodeDefault(i) ELSE nodes[i].id :
             i \in DOMAIN nodes}
        \cup {nodes[i].label : i \in {j \in DOMAIN nodes :
                                          nodes[j].label # Absent}}

\* The edges of the document json_to_gml reads whose endpoints are both
\* names of nodes.
ConvertibleEdges ==
    LET edges == IF "edges" \in document.keys THEN document.edges ELSE <<>>
    IN  {i \in DOMAIN edges : /\ EndpointKey(edges[i].source) \in NodeNames
                              /\ EndpointKey(edges[i].target) \in NodeNames}

PlainChars ==
    {"a", "b", "c", "e", "f", "i", "k", "l", "n", "o", "p", "y", "N", "P",
     "C"}

Plain(s) ==
    /\ \A i \in DOMAIN s : s[i] \in PlainChars \cup {" "}
    /\ s # <<>> => s[1] # " " /\ s[Len(s)] # " "
    /\ \A i \in 1..(Len(s) - 1) : ~(s[i] = " " /\ s[i + 1] = " ")

\* The 1-based position of the node with the given id.
Position14(id) == CHOOSE i \in DOMAIN document.nodes : document.nodes[i].id = id

\* The documents C14 is about: a nodes/edges document whose nodes have
\* distinct ids, no label being another node's id, and whose edges all
\* reference ids of nodes.
RoundTripDocument ==
    /\ {"nodes", "edges"} \subseteq document.keys
    /\ \A i \in DOMAIN document.nodes : ~Falsy(document.nodes[i].id)
    /\ Distinct(NodeIds(document.nodes))
    /\ \A i, j \in DOMAIN document.nodes :
           i # j => document.nodes[i].label # document.nodes[j].id
    /\ \A edge \in Range(document.edges) :
           edge.source \in GivenIds /\ edge.target \in GivenIds

Unchanged(x, y) == y = x

\* The characters escape_gml_string lets through.
Sanitized(y) ==
    \A i \in DOMAIN y :
        y[i] \notin {"e_acute", "eszett", "\"", "[", "]", "{", "}", ";", "|"}

UnchangedIfPlain(x, y) == (Plain(x) => y = x) /\ Sanitized(y)

\* When the string y of a block renders the string x of the document.
Same(strict, x, y) == IF strict THEN Unchanged(x, y) ELSE UnchangedIfPlain(x, y)

\* One node block per node, numbered 1..n in input order, and one edge
\* block per edge with the positions of its endpoints.
RoundTrip(strict) ==
    /\ Len(gml.nodes) = Len(document.nodes)
    /\ \A i \in DOMAIN document.nodes :
           /\ gml.nodes[i].id = i
           /\ document.nodes[i].label # Absent =>
                  Same(strict, document.nodes[i].label, gml.nodes[i].label)
           /\ document.nodes[i].type # Absent =>
                  Same(strict, document.nodes[i].type, gml.nodes[i].type)
    /\ Len(gml.edges) = Len(document.edges)
    /\ \A k \in DOMAIN document.edges :
           /\ gml.edges[k].source = Position14(document.edges[k].source)
           /\ gml.edges[k].target = Position14(document.edges[k].target)
           /\ document.edges[k].relationship # Absent =>
                  Same(strict, document.edges[k].relationship,
                       gml.edges[k].label)

\* C14 as stated: GML round trip: for such a document the GML has one
\* node block per node, numbered 1..n in input order with the node's label
\* and type, and one edge block per edge with the positions of its
\* endpoints and its relationship label, all recovered unchanged.
C14_GmlRoundTrip ==
    (gml.written /\ RoundTripDocument) => RoundTrip(TRUE)

\* C14 amended: the blocks, their numbering and the endpoints are as
\* stated; a label, type or relationship is recovered unchanged when it
\* consists of letters and single inner spaces, and any other comes back
\* without accented, non-ASCII or structural characters.
C14_GmlRoundTripSanitized ==
    (gml.written /\ RoundTripDocument) => RoundTrip(FALSE)

\* A document of two nodes and an edge between them was converted.
C14_Witness ==
    /\ gml.written /\ RoundTripDocument
    /\ Len(document.nodes) = 2
    /\ document.edges # <<>>
    /\ Len(gml.edges) = Len(document.edges)

\* The documents C28 is about: a nodes/edges document whose nodes have
\* distinct ids and whose edges all reference ids of nodes; a label may be
\* the same string as another node's id.
EndpointDocument ==
    /\ {"nodes", "edges"} \subseteq document.keys
    /\ \A i \in DOMAIN document.nodes : ~Falsy(document.nodes[i].id)
    /\ Distinct(NodeIds(document.nodes))
    /\ \A edge \in Range(document.edges) :
           edge.source \in GivenIds /\ edge.target \in GivenIds

\* C28: GML endpoint mapping: json_to_gml writes an edge endpoint that is
\* the id of a node of the document as the 1-based position of that node,
\* also when another node's label is the same string as that id.
C28_GmlEndpointMapping ==
    (gml.written /\ EndpointDocument) =>
        /\ Len(gml.edges) = Len(document.edges)
        /\ \A k \in DOMAIN document.edges :
               /\ gml.edges[k].source = Position14(document.edges[k].source)
               /\ gml.edges[k].target = Position14(document.edges[k].target)


-----------------------------------------------------------------------------
(* Claims about determine_entity_type (SpecClassify) *)

\* cat_text of the call
CatText == lower(join(classify.categories))

\* C29: for a page title outside the main-character roster,
\* determine_entity_type returns NPC when the page's category text contains
\* 'non-player character' or 'npc'.
C29_NpcByCategory ==
    (/\ classify.result # ""
     /\ classify.page_title \notin roster
     /\ \/ Within(kw_non_player_character, CatText)
        \/ Within(kw_npc, CatText))
        => classify.result = "NPC"


-----------------------------------------------------------------------------
(* Claims about char_graph's add_relationship (SpecHeur) *)

\* The mentions of the pair added so far.
Added == SubSeq(heur.types, 1, heur.done)

HeurPair == <<HeurSource, heur.target>>

\* Both pages are entities and at least one mention has been added.
PairAdded == heur.target \in HeurEntities /\ heur.done >= 1

\* The type read back from the title of the pair's edge.
StoredType(h) == existing_type(h.edges[HeurPair])

\* add_relationship for each type of a list, in the order of the list,
\* starting from HeurStart: the builder after the first n types.
RECURSIVE AddMentions(_, _)
AddMentions(types, n) ==
    IF n = 0 THEN HeurStart
    ELSE CHOOSE after \in
             {add_relationship_heuristic(h, HeurSource, heur.target,
                                         types[n]) :
                  h \in {AddMentions(types, n - 1)}} : TRUE

\* Every order in which the mentions of a list can be added.
Reorderings(types) ==
    {[i \in DOMAIN types |-> types[f[i]]] : f \in Permutations(DOMAIN types)}

MaxPriority(types) ==
    CHOOSE m \in {priority(types[i]) : i \in DOMAIN types} :
        \A i \in DOMAIN types : priority(types[i]) <= m

\* The earliest type of a list among those of the highest priority.
FirstOfMax(types) ==
    LET m == MaxPriority(types)
    IN  types[CHOOSE i \in DOMAIN types :
                  /\ priority(types[i]) = m
                  /\ \A j \in 1..(i - 1) : priority(types[j]) < m]

\* C30 as stated: after adding any sequence of relationship types for one
\* ordered pair of existing entities, the pair has a single edge, the type
\* stored on it is the same for every permutation of the sequence, and its
\* priority is the maximum priority among the added types.
C30_OrderIndependentType ==
    PairAdded =>
        /\ DOMAIN heur.h.edges = {HeurPair}
        /\ priority(StoredType(heur.h)) = MaxPriority(Added)
        /\ \A p \in Reorderings(Added) :
               StoredType(AddMentions(p, Len(p))) = StoredType(heur.h)

\* C30, amended: the pair has a single edge; the type stored on it is the
\* earliest added type among those of the maximum priority, so its priority
\* is that maximum, and it is the same for every permutation of the
\* sequence that has the same earliest type of maximum priority.
C30_FirstOfMaxPriority ==
    PairAdded =>
        LET stored == StoredType(heur.h)
            first == FirstOfMax(Added)
        IN  /\ DOMAIN heur.h.edges = {HeurPair}
            /\ stored = first
            /\ priority(stored) = MaxPriority(Added)
            /\ \A p \in Reorderings(Added) :
                   FirstOfMax(p) = first =>
                       StoredType(AddMentions(p, Len(p))) = stored

\* All mentions added, two of them of different types of the maximum
\* priority, and the edge carries the earlier one.
C30_Witness ==
    /\ PairAdded
    /\ heur.done = Len(heur.types)
    /\ \E i, j \in DOMAIN Added :
           /\ i < j
           /\ Added[i] # Added[j]
           /\ priority(Added[i]) = MaxPriority(Added)
           /\ priority(Added[j]) = MaxPriority(Added)
           /\ StoredType(heur.h) = Added[i]
           /\ heur.h.edges[HeurPair].title = edge_label(Added[i])

=============================================================================
